---- MODULE Spec2Model ----
(***************************************************************************)
(* PROFINET RSI dissector (plugins/epan/profinet/packet-pn-rsi.c):         *)
(* opcode dispatch of FREQ/FRSP PDUs and reassembly of segmented RSI       *)
(* payloads.                                                               *)
(*                                                                         *)
(* A capture is a sequence of frames.  Every frame carries one RSI PDU.    *)
(* A frame is dissected for the first time when it arrives (Receive,       *)
(* pinfo->fd->visited == false) and may be dissected again at any later    *)
(* time (Revisit, visited == true).  `tvb` is the byte buffer of the       *)
(* frame starting at the RSI header, `offset` the 0-based cursor into it.  *)
(***************************************************************************)
EXTENDS Integers, Sequences, FiniteSets, TLC

(* ----------------------------- bounds --------------------------------- *)

\* Number of frames of the capture.
MaxFrames == 3

\* Number of frames of a capture of request PDUs of every opcode.
MaxFreqFrames == 1

\* Flows: (source address, destination address, conversation index).
Flows == {"A", "B"}

(* --------------------------- program constants ------------------------ *)

CON_SAP == 65535
u32RsiHeaderSize == 4
PDU_TYPE_REQ == "REQ"
PDU_TYPE_RSP == "RSP"

\* n zero bytes
Zeros(n) == [i \in 1..n |-> 0]

(* -------------------- tvbuff helpers (bounds-checked) ----------------- *)

tvb_captured_length(tvb) == Len(tvb)

tvb_captured_length_remaining(tvb, offset) ==
    IF offset <= Len(tvb) THEN Len(tvb) - offset ELSE 0

\* the bytes tvb[offset .. offset+length-1] (offset is 0-based)
tvb_bytes(tvb, offset, length) == SubSeq(tvb, offset + 1, offset + length)

\* a fixed-width read throws when fewer than `width` bytes remain
tvb_bytes_exist(tvb, offset, width) == offset + width <= Len(tvb)

\* big-endian reads (dissect_dcerpc_uint8 / uint16 with drep big-endian)
tvb_get_uint8(tvb, offset) == tvb[offset + 1]

tvb_get_ntohs(tvb, offset) == tvb[offset + 1] * 256 + tvb[offset + 2]

\* the element of a one-element set; The({ e(x) : x \in {v} }) is e(v) with
\* v evaluated once
The(S) == CHOOSE x \in S : TRUE

(* ------------------------- bit operations ------------------------------ *)

\* the bit of weight w (a power of two) of byte a
Bit(a, w) == (a \div w) % 2

\* a & b on bytes, bit by bit
BitAndBits(a, b) ==
    Bit(a, 1) * Bit(b, 1) + 2 * Bit(a, 2) * Bit(b, 2)
    + 4 * Bit(a, 4) * Bit(b, 4) + 8 * Bit(a, 8) * Bit(b, 8)
    + 16 * Bit(a, 16) * Bit(b, 16) + 32 * Bit(a, 32) * Bit(b, 32)
    + 64 * Bit(a, 64) * Bit(b, 64) + 128 * Bit(a, 128) * Bit(b, 128)

\* the same as a table
BitAndTable == [a \in 0..255 |-> [b \in 0..255 |-> BitAndBits(a, b)]]

BitAnd(a, b) == BitAndTable[a][b]

\* weight of the lowest bit set in a (non-zero) byte mask
LowBit(mask) ==
    IF mask % 2 = 1 THEN 1
    ELSE IF mask % 4 = 2 THEN 2
    ELSE IF mask % 8 = 4 THEN 4
    ELSE IF mask % 16 = 8 THEN 8
    ELSE IF mask % 32 = 16 THEN 16
    ELSE IF mask % 64 = 32 THEN 32
    ELSE IF mask % 128 = 64 THEN 64
    ELSE 128

\* value the protocol tree shows for a field registered with a bit mask:
\* (value & mask) shifted down to the lowest bit of the mask
field_value(value, mask) == BitAnd(value, mask) \div LowBit(mask)

(* ------------- reassembly library (epan/reassemble.c) ------------------ *)
(* fragment_table:    flow -> list of the segments buffered so far          *)
(*                    (<<>> stands for "no entry", fragment_get == NULL).   *)
(* reassembled_table: (frame, conversation index) -> head of the completed  *)
(*                    group that frame belongs to (NoHead stands for NULL). *)

NoHead == [reassembled_in |-> 0, tvb_data |-> <<>>]

ReassKeys == (1..MaxFrames) \X Flows

EmptyFragmentTable == [id \in Flows |-> <<>>]

EmptyReassembledTable == [k \in ReassKeys |-> NoHead]

RECURSIVE ConcatData(_)
ConcatData(items) ==
    IF items = <<>> THEN <<>>
    ELSE Head(items).data \o ConcatData(Tail(items))

fragment_get(ft, id) == ft[id]

fragment_get_reassembled_id(rt, num, id) == rt[<<num, id>>]

\* Append the segment behind the ones already buffered for `id`; when it is
\* the last one (more_frags false) build the reassembled buffer, remove the
\* group from the fragment table and file the head under every member frame.
fragment_add_seq_next(ft, rt, num, id, data, more_frags) ==
    LET items == Append(ft[id], [frame |-> num, data |-> data])
        head  == [reassembled_in |-> num, tvb_data |-> ConcatData(items)]
        member(k) == k[2] = id /\ \E i \in 1..Len(items) : items[i].frame = k[1]
    IN  IF more_frags
        THEN [ft |-> [ft EXCEPT ![id] = items], rt |-> rt]
        ELSE [ft |-> [ft EXCEPT ![id] = <<>>],
              rt |-> [k \in ReassKeys |-> IF member(k) THEN head ELSE rt[k]]]

process_reassembled_data(fd_head) == fd_head.tvb_data

(* ------------- block decoders outside this file ------------------------ *)
\* dissect_blocks / dissect_rsi_blocks walk the blocks of the buffer they are
\* given; both return the offset behind the last block.
dissect_blocks(tvb, offset) == tvb_captured_length(tvb)

dissect_rsi_blocks(tvb, offset, u32FOpnumOffsetOpnum, type) == tvb_captured_length(tvb)

(* ------------- dissect_pn_rta_remaining_user_data_bytes ---------------- *)

\* find_conversation / conversation_new yield the conversation of the
\* frame's flow, or NULL when no flow identity can be established
NULL == "NULL"

\* the process is terminated by the invalid read
SIGSEGV == "SIGSEGV"

\* What reading conv->conv_index gives: the index of the conversation; with
\* conv == NULL the read is invalid, the process is terminated or some value
\* is read.
ConvIndexRead(conv) ==
    IF conv = NULL THEN Flows \cup {SIGSEGV} ELSE {conv}

\* the packet_info of a dissection, with the conversation the lookup gave
\* and the value read through conv->conv_index
PacketInfo(num, visited, conv, index) ==
    [num |-> num, visited |-> visited, conv |-> conv, flow |-> index]

\* conv->conv_index of the conversation found or created for the frame
\* (mutant: one fixed index is used for every frame)
conv_index_Fixed(pinfo) == "A"

conv_index(pinfo) == pinfo.flow

\* "is this packet containing a standalone segment?"
\* (mutant: the MoreFrag test is inverted)
IsStandaloneSegment_Inverted(u8MoreFrag, fd_frag, fd_reass) ==
    u8MoreFrag # 0 /\ fd_frag = <<>> /\ fd_reass = NoHead

IsStandaloneSegment(u8MoreFrag, fd_frag, fd_reass) ==
    u8MoreFrag = 0 /\ fd_frag = <<>> /\ fd_reass = NoHead

\* "we haven't seen it before, add to list of segments"
\* (mutant: the visited test is inverted)
AddsSegment_Inverted(pinfo) == pinfo.visited

AddsSegment(pinfo) == ~pinfo.visited /\ pinfo.conv # NULL

\* arguments handed to fragment_add_seq_next
\* (mutant: the cursor is ignored, the bytes are taken from the buffer start)
SegmentData_FromStart(tvb, offset, length) == tvb_bytes(tvb, 0, length)

SegmentData(tvb, offset, length) == tvb_bytes(tvb, offset, length)

\* (mutant: the flag is not passed on, every segment announces more)
SegmentMoreFrags_AlwaysMore(u8MoreFrag) == TRUE

SegmentMoreFrags(u8MoreFrag) == u8MoreFrag # 0

\* "is this the packet to show the reassembled payload in?"
\* (mutants: every member frame shows it / the test is inverted)
ShowsReassembled_Always(pinfo, fd_reass) == TRUE

ShowsReassembled_Inverted(pinfo, fd_reass) == pinfo.num # fd_reass.reassembled_in

ShowsReassembled(pinfo, fd_reass) == pinfo.num = fd_reass.reassembled_in

\* offset at which the block decoder starts in the reassembled buffer
ReassembledStart(offset) == 0

\* arguments handed to dissect_rsi_blocks for the reassembled buffer
\* (variant: the opcode is not forwarded)
ReassembledOpnum_Dropped(u32FOpnumOffsetOpnum) == 0

ReassembledOpnum(u32FOpnumOffsetOpnum) == u32FOpnumOffsetOpnum

ReassembledType(type) == type

\* the opcode and the PDU type a caller hands to the function
NoArgs == [u32FOpnumOffsetOpnum |-> -1, type |-> ""]

\* result of a call that did not enter the function
NotEntered(ft, rt, offset) ==
    [ft |-> ft, rt |-> rt, path |-> "none", fn |-> "", buf |-> <<>>,
     start |-> 0, opnum |-> -1, type |-> "", reassembled_in |-> 0,
     args |-> NoArgs, offset |-> offset]

\* result of a call that ended at the read of conv->conv_index
Crashed(ft, rt, offset, args) ==
    [ft |-> ft, rt |-> rt, path |-> "crash", fn |-> "", buf |-> <<>>,
     start |-> 0, opnum |-> -1, type |-> "", reassembled_in |-> 0,
     args |-> args, offset |-> offset]

dissect_pn_rta_remaining_user_data_bytes(ft, rt, pinfo, tvb, offset, length, u8MoreFrag, u32FOpnumOffsetOpnum, type) ==
    IF conv_index(pinfo) = SIGSEGV
    THEN Crashed(ft, rt, offset,
                 [u32FOpnumOffsetOpnum |-> u32FOpnumOffsetOpnum, type |-> type])
    ELSE
    LET id        == conv_index(pinfo)
        args      == [u32FOpnumOffsetOpnum |-> u32FOpnumOffsetOpnum, type |-> type]
        fd_frag   == fragment_get(ft, id)
        fd_reass0 == fragment_get_reassembled_id(rt, pinfo.num, id)
    IN  IF IsStandaloneSegment(u8MoreFrag, fd_frag, fd_reass0)
        THEN [ft |-> ft, rt |-> rt, path |-> "standalone",
              fn |-> "dissect_blocks", buf |-> tvb, start |-> offset,
              opnum |-> -1, type |-> "", reassembled_in |-> 0,
              args |-> args, offset |-> dissect_blocks(tvb, offset)]
        ELSE
        LET tabs     == IF AddsSegment(pinfo)
                        THEN fragment_add_seq_next(ft, rt, pinfo.num, id,
                                 SegmentData(tvb, offset, length),
                                 SegmentMoreFrags(u8MoreFrag))
                        ELSE [ft |-> ft, rt |-> rt]
            fd_reass == IF AddsSegment(pinfo)
                        THEN fragment_get_reassembled_id(tabs.rt, pinfo.num, id)
                        ELSE fd_reass0
        IN  IF fd_reass # NoHead /\ ShowsReassembled(pinfo, fd_reass)
            THEN LET next_tvb == process_reassembled_data(fd_reass)
                 IN  [ft |-> tabs.ft, rt |-> tabs.rt, path |-> "segment",
                      fn |-> "dissect_rsi_blocks", buf |-> next_tvb,
                      start |-> ReassembledStart(offset),
                      opnum |-> ReassembledOpnum(u32FOpnumOffsetOpnum),
                      type |-> ReassembledType(type), reassembled_in |-> 0,
                      args |-> args,
                      offset |-> dissect_rsi_blocks(next_tvb, ReassembledStart(offset),
                                                    u32FOpnumOffsetOpnum, type)]
            ELSE [ft |-> tabs.ft, rt |-> tabs.rt, path |-> "segment",
                  fn |-> "", buf |-> <<>>, start |-> 0, opnum |-> -1,
                  type |-> "",
                  reassembled_in |-> IF fd_reass # NoHead
                                     THEN fd_reass.reassembled_in ELSE 0,
                  args |-> args, offset |-> offset]

\* pn_rsi_var_part_len: the text the VarPartLen field is displayed with
pn_rsi_var_part_len(u16VarPartLen) ==
    IF u16VarPartLen = 0 THEN "No RTA-SDU or RSI-SDU exists"
    ELSE IF u16VarPartLen <= 1432
         THEN "An RTA-SDU or RSI-PDU with VarPartLen octets exists"
    ELSE "Reserved"

(* ------------------------- block decoders ------------------------------ *)

\* A uint32_t value as <<upper 16 bits, lower 16 bits>>.
U32(n) == <<(n \div 65536) % 65536, n % 65536>>

\* uint32_t addition and subtraction: modulo 2^32
U32Add(a, b) ==
    LET lo == a[2] + b[2]
    IN  <<(a[1] + b[1] + lo \div 65536) % 65536, lo % 65536>>

U32Sub(a, b) ==
    LET lo == a[2] - b[2]
    IN  <<(a[1] - b[1] - (IF lo < 0 THEN 1 ELSE 0)) % 65536, lo % 65536>>

\* conversion of a uint32_t to int32_t (two's complement)
Int32(a) == (IF a[1] >= 32768 THEN a[1] - 65536 ELSE a[1]) * 65536 + a[2]

\* PDU.FOpnumOffset.Offset + PDU.VarPartLen - 4 - RsiHeaderSize: the operands
\* are converted to uint32_t, the result is stored in an int32_t.
PayloadLength_Low16(u32FOpnumOffsetOffset, u16VarPartLen) ==
    U32Sub(U32Sub(U32Add(U32(u32FOpnumOffsetOffset), U32(u16VarPartLen)),
                  U32(4)), U32(u32RsiHeaderSize))[2]

PayloadLength(u32FOpnumOffsetOffset, u16VarPartLen) ==
    Int32(U32Sub(U32Sub(U32Add(U32(u32FOpnumOffsetOffset), U32(u16VarPartLen)),
                        U32(4)), U32(u32RsiHeaderSize)))

\* number of bytes of the fixed fields each block decodes at Offset == 0
SVCS_FixedLen(u32FOpnumOffsetOffset) ==
    IF u32FOpnumOffsetOffset = 0 THEN 4 ELSE 0

CONN_FixedLen(u32FOpnumOffsetOffset) ==
    IF u32FOpnumOffsetOffset = 0 THEN 4 + 2 + 2 + 2 + 1 + 1 ELSE 0

\* (mutant: the identification fields are decoded for every endpoint)
SAC_FixedLen_AnyEndpoint(u32FOpnumOffsetOffset, u16DestinationServiceAccessPoint) ==
    IF u32FOpnumOffsetOffset = 0 THEN 4 + 2 + 2 + 2 + 1 + 1 ELSE 0

SAC_FixedLen(u32FOpnumOffsetOffset, u16DestinationServiceAccessPoint) ==
    IF u32FOpnumOffsetOffset = 0
    THEN (IF u16DestinationServiceAccessPoint = CON_SAP
          THEN 4 + 2 + 2 + 2 + 1 + 1 ELSE 4)
    ELSE 0

\* the "RSI Header ... is at first segment" note
\* (mutant: the note is tied to Offset alone)
FirstSegmentNote_AnyMoreFrag(u32FOpnumOffsetOffset, u8MoreFrag) ==
    u32FOpnumOffsetOffset # 0

FirstSegmentNote(u32FOpnumOffsetOffset, u8MoreFrag) ==
    u32FOpnumOffsetOffset # 0 /\ u8MoreFrag = 0

\* no undecoded marker was emitted
NoMarker == [offset |-> 0, length |-> 0]

\* no FOpnumOffset field was decoded
NoFOpnum ==
    [decoded |-> FALSE, at |-> 0, offset_field |-> 0, opnum_field |-> 0,
     callsequence_field |-> 0, u32FOpnumOffsetOpnum |-> 0,
     u32FOpnumOffsetOffset |-> 0, offset |-> 0]

\* Common shape of the four block decoders: fixed fields (a read past the end
\* of the buffer throws), then the hand-off of the remaining bytes when the
\* computed length is positive.
BlockBody(block, fixed, type, ft, rt, pinfo, tvb, offset, u16VarPartLen, u8MoreFrag, u32FOpnumOffsetOffset, u32FOpnumOffsetOpnum) ==
    IF ~tvb_bytes_exist(tvb, offset, fixed)
    THEN [block |-> block, exc |-> TRUE, note |-> FALSE, marker |-> NoMarker, fo |-> NoFOpnum,
          ud |-> NotEntered(ft, rt, offset)]
    ELSE [block |-> block, exc |-> FALSE, marker |-> NoMarker, fo |-> NoFOpnum,
          note |-> FirstSegmentNote(u32FOpnumOffsetOffset, u8MoreFrag),
          ud |-> IF PayloadLength(u32FOpnumOffsetOffset, u16VarPartLen) > 0
                 THEN dissect_pn_rta_remaining_user_data_bytes(ft, rt, pinfo, tvb,
                          offset + fixed,
                          tvb_captured_length_remaining(tvb, offset + fixed),
                          u8MoreFrag, u32FOpnumOffsetOpnum, type)
                 ELSE NotEntered(ft, rt, offset + fixed)]

dissect_RSI_SVCS_block(ft, rt, pinfo, tvb, offset, u16VarPartLen, u8MoreFrag, u32FOpnumOffsetOffset, u32FOpnumOffsetOpnum) ==
    BlockBody("SVCS", SVCS_FixedLen(u32FOpnumOffsetOffset), PDU_TYPE_REQ,
              ft, rt, pinfo, tvb, offset, u16VarPartLen, u8MoreFrag,
              u32FOpnumOffsetOffset, u32FOpnumOffsetOpnum)

dissect_RSI_CONN_block(ft, rt, pinfo, tvb, offset, u16VarPartLen, u8MoreFrag, u32FOpnumOffsetOffset, u32FOpnumOffsetOpnum) ==
    BlockBody("CONN", CONN_FixedLen(u32FOpnumOffsetOffset), PDU_TYPE_REQ,
              ft, rt, pinfo, tvb, offset, u16VarPartLen, u8MoreFrag,
              u32FOpnumOffsetOffset, u32FOpnumOffsetOpnum)

dissect_SecurityAssociationContol_block(ft, rt, pinfo, tvb, offset, u16VarPartLen, u8MoreFrag, u32FOpnumOffsetOffset, u32FOpnumOffsetOpnum, u16DestinationServiceAccessPoint) ==
    BlockBody("SecurityAssociationControl",
              SAC_FixedLen(u32FOpnumOffsetOffset, u16DestinationServiceAccessPoint),
              PDU_TYPE_REQ,
              ft, rt, pinfo, tvb, offset, u16VarPartLen, u8MoreFrag,
              u32FOpnumOffsetOffset, u32FOpnumOffsetOpnum)

\* type handed to the reassembly by the response block
\* (mutant: responses are handed over as requests)
RSP_Type_REQ == PDU_TYPE_REQ

RSP_Type == PDU_TYPE_RSP

\* dissect_PNIO_status (outside this file) decodes the 4-byte PNIOStatus
RSP_FixedLen(u32FOpnumOffsetOffset) ==
    IF u32FOpnumOffsetOffset = 0 THEN 4 ELSE 0

dissect_RSI_RSP_block(ft, rt, pinfo, tvb, offset, u16VarPartLen, u8MoreFrag, u32FOpnumOffsetOffset, u32FOpnumOffsetOpnum) ==
    BlockBody("RSP", RSP_FixedLen(u32FOpnumOffsetOffset), RSP_Type,
              ft, rt, pinfo, tvb, offset, u16VarPartLen, u8MoreFrag,
              u32FOpnumOffsetOffset, u32FOpnumOffsetOpnum)

\* dissect_pn_undecoded (outside this file) marks `length` bytes from
\* `offset` as undecoded and returns the offset behind them
dissect_pn_undecoded(tvb, offset, length) == offset + length

\* length handed to dissect_pn_undecoded: tvb_captured_length(tvb)
UndecodedLength(tvb, offset) == tvb_captured_length(tvb)

\* dissect_pn_undecoded(tvb, offset, pinfo, tree, tvb_captured_length(tvb))
Undecoded(ft, rt, tvb, offset) ==
    [block |-> "undecoded", exc |-> FALSE, note |-> FALSE,
     marker |-> [offset |-> offset, length |-> UndecodedLength(tvb, offset)],
     fo |-> NoFOpnum,
     ud |-> NotEntered(ft, rt,
                dissect_pn_undecoded(tvb, offset, UndecodedLength(tvb, offset)))]

(* ----------------------- dissect_FOpnumOffset -------------------------- *)
\* The field is read big-endian from the four bytes at `offset`; the three
\* sub-fields are masks of that one value.
\* Opnum = (v & 0x1F000000) >> 24, Offset = v & 0x00FFFFFF.
\* (variant: the opcode mask is one bit short)
FOpnumOffsetOpnum_Mask0F(tvb, offset) == tvb_get_uint8(tvb, offset) % 16

FOpnumOffsetOpnum(tvb, offset) == tvb_get_uint8(tvb, offset) % 32

FOpnumOffsetOffset(tvb, offset) ==
    tvb_get_uint8(tvb, offset + 1) * 65536 + tvb_get_ntohs(tvb, offset + 2)

FOpnumOffsetLen == 4

\* bit masks of the three sub-fields (hf_register_info), one entry per byte
\* of the big-endian field: 0x00FFFFFF, 0x1F000000, 0xE0000000
hf_pn_rsi_f_opnum_offset_offset       == <<0, 255, 255, 255>>
hf_pn_rsi_f_opnum_offset_opnum        == <<31, 0, 0, 0>>
hf_pn_rsi_f_opnum_offset_callsequence == <<224, 0, 0, 0>>

\* value the protocol tree shows for a 32-bit field registered with a bit
\* mask: (value & mask) shifted down to the lowest bit of the mask.  The
\* bytes below the lowest mask bit are shifted out before the others are
\* combined.
field_value32(bytes, mask) ==
    LET m1 == BitAnd(bytes[1], mask[1])
        m2 == BitAnd(bytes[2], mask[2])
        m3 == BitAnd(bytes[3], mask[3])
        m4 == BitAnd(bytes[4], mask[4])
    IN  IF mask[4] # 0
        THEN (((m1 * 256 + m2) * 256 + m3) * 256 + m4) \div LowBit(mask[4])
        ELSE IF mask[3] # 0
        THEN ((m1 * 256 + m2) * 256 + m3) \div LowBit(mask[3])
        ELSE IF mask[2] # 0
        THEN (m1 * 256 + m2) \div LowBit(mask[2])
        ELSE m1 \div LowBit(mask[1])

\* Opnum and CallSequence for every value of the first byte (their masks
\* select no bit of the other three bytes)
FOpnumOffsetFirstByte ==
    [b \in 0..255 |->
        [opnum_field |->
             field_value32(<<b, 0, 0, 0>>, hf_pn_rsi_f_opnum_offset_opnum),
         callsequence_field |->
             field_value32(<<b, 0, 0, 0>>, hf_pn_rsi_f_opnum_offset_callsequence)]]

\* the three sub-fields are read from the same four bytes; the first two
\* reads leave the cursor where it is, the third one assigns it
dissect_FOpnumOffset(tvb, offset) ==
    LET bytes == tvb_bytes(tvb, offset, FOpnumOffsetLen)
    IN  [decoded |-> TRUE, at |-> offset,
         offset_field       |-> field_value32(bytes, hf_pn_rsi_f_opnum_offset_offset),
         opnum_field        |-> FOpnumOffsetFirstByte[bytes[1]].opnum_field,
         callsequence_field |-> FOpnumOffsetFirstByte[bytes[1]].callsequence_field,
         u32FOpnumOffsetOpnum  |-> FOpnumOffsetOpnum(tvb, offset),
         u32FOpnumOffsetOffset |-> FOpnumOffsetOffset(tvb, offset),
         offset |-> offset + FOpnumOffsetLen]

\* result of a decoder that threw before anything else happened
Thrown(ft, rt, block, offset) ==
    [block |-> block, exc |-> TRUE, note |-> FALSE, marker |-> NoMarker, fo |-> NoFOpnum,
     ud |-> NotEntered(ft, rt, offset)]

(* ----------------------- dissect_FREQ_RTA_block ------------------------ *)

\* the block decoder the switch selects
\* (mutant: Connect is always decoded as a CONN block)
FREQ_BlockDecoder_ConnectIsCONN(u32FOpnumOffsetOpnum, u16DestinationServiceAccessPoint) ==
    CASE u32FOpnumOffsetOpnum \in {0, 5, 6} -> "CONN"
      [] u32FOpnumOffsetOpnum \in {2, 3, 4, 7, 8, 9} -> "SVCS"
      [] u32FOpnumOffsetOpnum = 10 -> "SecurityAssociationControl"
      [] OTHER -> "undecoded"

FREQ_BlockDecoder(u32FOpnumOffsetOpnum, u16DestinationServiceAccessPoint) ==
    CASE u32FOpnumOffsetOpnum = 0 ->
            IF u16DestinationServiceAccessPoint = CON_SAP THEN "CONN" ELSE "SVCS"
      [] u32FOpnumOffsetOpnum = 1 -> "undecoded"
      [] u32FOpnumOffsetOpnum \in {2, 3, 4} -> "SVCS"
      [] u32FOpnumOffsetOpnum \in {5, 6} -> "CONN"
      [] u32FOpnumOffsetOpnum \in {7, 8, 9} -> "SVCS"
      [] u32FOpnumOffsetOpnum = 10 -> "SecurityAssociationControl"
      [] OTHER -> "undecoded"

dissect_FREQ_RTA_block(ft, rt, pinfo, tvb, offset, u16VarPartLen, u8MoreFrag, u16DestinationServiceAccessPoint) ==
    IF ~tvb_bytes_exist(tvb, offset, FOpnumOffsetLen)
    THEN Thrown(ft, rt, "FREQ", offset)
    ELSE
    The({
    LET u32FOpnumOffsetOpnum  == fo.u32FOpnumOffsetOpnum
        u32FOpnumOffsetOffset == fo.u32FOpnumOffsetOffset
        off == fo.offset
        sel == FREQ_BlockDecoder(u32FOpnumOffsetOpnum, u16DestinationServiceAccessPoint)
        res ==
        CASE sel = "CONN" ->
               dissect_RSI_CONN_block(ft, rt, pinfo, tvb, off, u16VarPartLen,
                   u8MoreFrag, u32FOpnumOffsetOffset, u32FOpnumOffsetOpnum)
          [] sel = "SVCS" ->
               dissect_RSI_SVCS_block(ft, rt, pinfo, tvb, off, u16VarPartLen,
                   u8MoreFrag, u32FOpnumOffsetOffset, u32FOpnumOffsetOpnum)
          [] sel = "SecurityAssociationControl" ->
               dissect_SecurityAssociationContol_block(ft, rt, pinfo, tvb, off,
                   u16VarPartLen, u8MoreFrag, u32FOpnumOffsetOffset,
                   u32FOpnumOffsetOpnum, u16DestinationServiceAccessPoint)
          [] OTHER -> Undecoded(ft, rt, tvb, off)
    IN  [res EXCEPT !.fo = fo]
    : fo \in { dissect_FOpnumOffset(tvb, offset) } })

(* ----------------------- dissect_FRSP_RTA_block ------------------------ *)

dissect_FRSP_RTA_block(ft, rt, pinfo, tvb, offset, u16VarPartLen, u8MoreFrag) ==
    IF ~tvb_bytes_exist(tvb, offset, FOpnumOffsetLen)
    THEN Thrown(ft, rt, "FRSP", offset)
    ELSE
    The({
    LET res == dissect_RSI_RSP_block(ft, rt, pinfo, tvb, fo.offset,
                   u16VarPartLen, u8MoreFrag,
                   fo.u32FOpnumOffsetOffset, fo.u32FOpnumOffsetOpnum)
    IN  [res EXCEPT !.fo = fo]
    : fo \in { dissect_FOpnumOffset(tvb, offset) } })

(* --------------------------- dissect_PNIO_RSI -------------------------- *)

\* 2+2+1+1+2+2+2 bytes of the RSI header
RsiHeaderLen == 12

\* u8MoreFrag = (u8AddFlags >> 5) & 0x1
\* (variant: the TACK bit is taken for MoreFrag)
MoreFrag_Bit4(u8AddFlags) == (u8AddFlags \div 16) % 2

MoreFrag(u8AddFlags) == (u8AddFlags \div 32) % 2

\* u8PDUType &= 0x0F
\* (variant: the version nibble is not masked off)
PDUType_Unmasked(u8PDUType) == u8PDUType

PDUType(u8PDUType) == u8PDUType % 16

\* u8PDUVersion >>= 4
PDUVersion(u8PDUVersion) == u8PDUVersion \div 16

\* bit masks of the AdditionalFlags sub-fields (hf_register_info)
hf_pn_rsi_add_flags_windowsize   == 7
hf_pn_rsi_add_flags_reserved1    == 8
hf_pn_rsi_add_flags_tack         == 16
hf_pn_rsi_add_flags_morefrag     == 32
hf_pn_rsi_add_flags_notification == 64
hf_pn_rsi_add_flags_reserved2    == 128

\* u8WindowSize = *u8AddFlags & 0x03, appended to the flags summary
u8WindowSize(u8AddFlags) == BitAnd(u8AddFlags, 3)

\* u8Tack = (*u8AddFlags & 0x10); u8Tack = (u8Tack == 0x10) ? 1 : 0
u8Tack(u8AddFlags) == IF BitAnd(u8AddFlags, 16) = 16 THEN 1 ELSE 0

\* cursor behind the AdditionalFlags byte: only the last of the six
\* sub-field reads assigns the cursor
\* (variant: every sub-field read advances the cursor)
AfterAddFlags_PerSubField(offset) == offset + 6

AfterAddFlags(offset) == offset + 1

\* The six sub-fields of an AdditionalFlags byte and the summary
\* ", Window Size: %u, Tack: %u" appended to the AddFlags item.
AdditionalFlagsFields(u8AddFlags) ==
    [u8AddFlags   |-> u8AddFlags,
     windowsize   |-> field_value(u8AddFlags, hf_pn_rsi_add_flags_windowsize),
     reserved1    |-> field_value(u8AddFlags, hf_pn_rsi_add_flags_reserved1),
     tack         |-> field_value(u8AddFlags, hf_pn_rsi_add_flags_tack),
     morefrag     |-> field_value(u8AddFlags, hf_pn_rsi_add_flags_morefrag),
     notification |-> field_value(u8AddFlags, hf_pn_rsi_add_flags_notification),
     reserved2    |-> field_value(u8AddFlags, hf_pn_rsi_add_flags_reserved2),
     summary      |-> [WindowSize |-> u8WindowSize(u8AddFlags),
                       Tack       |-> u8Tack(u8AddFlags)]]

\* the same for every byte value
AdditionalFlagsTable == [v \in 0..255 |-> AdditionalFlagsFields(v)]

\* the sub-fields are read from the one byte at `offset`
dissect_RSIAdditionalFlags(tvb, offset) ==
    [fields |-> AdditionalFlagsTable[tvb_get_uint8(tvb, offset)],
     offset |-> AfterAddFlags(offset)]

\* cursor behind the PDUType/Version byte: the type read leaves the cursor,
\* the version read advances it
AfterPDUType(offset) == offset + 1

\* the header fields a dissection did not reach
NoHeader ==
    [decoded |-> FALSE, at |-> 0,
     u16DestinationServiceAccessPoint |-> 0, u16SourceServiceAccessPoint |-> 0,
     u8PDUType |-> 0, u8PDUVersion |-> 0,
     flags |-> [u8AddFlags |-> 0, windowsize |-> 0, reserved1 |-> 0, tack |-> 0,
                morefrag |-> 0, notification |-> 0, reserved2 |-> 0,
                summary |-> [WindowSize |-> 0, Tack |-> 0]],
     u8MoreFrag |-> 0, u16SendSeqNum |-> 0, u16AckSeqNum |-> 0,
     u16VarPartLen |-> 0, offset |-> 0]

\* The header fields of dissect_PNIO_RSI in the order they are read; every
\* read starts at the cursor the previous one returned.
RsiHeader(tvb, offset) ==
    LET o1    == offset + 2
        o2    == o1 + 2
        o3    == AfterPDUType(o2)
    IN  The({
        LET o4    == flags.offset
            o5    == o4 + 2
            o6    == o5 + 2
            o7    == o6 + 2
        IN  [decoded |-> TRUE, at |-> offset,
             u16DestinationServiceAccessPoint |-> tvb_get_ntohs(tvb, offset),
             u16SourceServiceAccessPoint      |-> tvb_get_ntohs(tvb, o1),
             u8PDUType     |-> PDUType(tvb_get_uint8(tvb, o2)),
             u8PDUVersion  |-> PDUVersion(tvb_get_uint8(tvb, o2)),
             flags         |-> flags.fields,
             u8MoreFrag    |-> MoreFrag(flags.fields.u8AddFlags),
             u16SendSeqNum |-> tvb_get_ntohs(tvb, o4),
             u16AckSeqNum  |-> tvb_get_ntohs(tvb, o5),
             u16VarPartLen |-> tvb_get_ntohs(tvb, o6),
             offset        |-> o7]
        : flags \in { dissect_RSIAdditionalFlags(tvb, o3) } })

\* dissect_PNIO_status (outside this file) decodes the 4-byte PNIOStatus
PNIO_status_Len == 4

\* the PDU the switch on u8PDUType selects
RSI_Body(ft, rt, pinfo, tvb, hdr) ==
    LET off == hdr.offset
    IN  CASE hdr.u8PDUType = 3 ->
               [block |-> "ACK", exc |-> FALSE, note |-> FALSE,
                marker |-> NoMarker, fo |-> NoFOpnum, ud |-> NotEntered(ft, rt, off)]
          [] hdr.u8PDUType = 4 ->
               IF tvb_bytes_exist(tvb, off, PNIO_status_Len)
               THEN [block |-> "ERR", exc |-> FALSE, note |-> FALSE,
                     marker |-> NoMarker, fo |-> NoFOpnum,
                     ud |-> NotEntered(ft, rt, off + PNIO_status_Len)]
               ELSE Thrown(ft, rt, "ERR", off)
          [] hdr.u8PDUType = 5 ->
               dissect_FREQ_RTA_block(ft, rt, pinfo, tvb, off, hdr.u16VarPartLen,
                   hdr.u8MoreFrag, hdr.u16DestinationServiceAccessPoint)
          [] hdr.u8PDUType = 6 ->
               dissect_FRSP_RTA_block(ft, rt, pinfo, tvb, off, hdr.u16VarPartLen,
                   hdr.u8MoreFrag)
          [] OTHER -> Undecoded(ft, rt, tvb, off)

\* the security envelope a dissection did not decode
NoSecurity ==
    [decoded |-> FALSE, u8ProtectionMode |-> 0, branch |-> "", at |-> 0,
     checksum |-> NoMarker, data |-> NoMarker, errinfo |-> NoMarker,
     diag |-> {}]

dissect_PNIO_RSI(ft, rt, pinfo, tvb, offset) ==
    IF ~tvb_bytes_exist(tvb, offset, RsiHeaderLen)
    THEN [hdr |-> NoHeader, sec |-> NoSecurity,
          body |-> Thrown(ft, rt, "header", offset), offset |-> offset]
    ELSE
    The({ The({ [hdr |-> hdr, sec |-> NoSecurity, body |-> body,
                 offset |-> body.ud.offset]
                : body \in { RSI_Body(ft, rt, pinfo, tvb, hdr) } })
          : hdr \in { RsiHeader(tvb, offset) } })

(* --------------------- dissect_PNIO_RSI_with_security ------------------ *)

\* SecurityMetaData: Information 1, Control 1, SecuritySequenceCounter 4,
\* SecurityLength 2; each byte with two sub-fields advances the cursor once
SecurityMetaDataLen == 1 + 1 + 4 + 2

\* DestinationServiceAccessPoint 2, SourceServiceAccessPoint 2
ServiceAccessPointsLen == 2 + 2

\* u8ProtectionMode &= 0x0F
\* (variant: the mask of the registered field, 0x01, is used)
ProtectionMode_Bit0(u8Information) == u8Information % 2

ProtectionMode(u8Information) == u8Information % 16

\* the branch taken behind the service access points
SecurityBranch(u8ProtectionMode) ==
    IF u8ProtectionMode = 0 THEN "authentication"
    ELSE IF u8ProtectionMode = 1 THEN "encryption"
    ELSE "none"

u8LengthSecurityChecksum == 16

\* the SecurityChecksum item is added at the offset the body decode returned
\* (variant: it is put on the last 16 bytes of the buffer)
SecurityChecksumItem_Trailer(tvb, offset) ==
    [offset |-> tvb_captured_length(tvb) - u8LengthSecurityChecksum,
     length |-> u8LengthSecurityChecksum]

SecurityChecksumItem(tvb, offset) ==
    [offset |-> offset, length |-> u8LengthSecurityChecksum]

\* u16LengthSecurityData = tvb_captured_length_remaining(tvb, offset)
\* (variant: one byte is left over)
LengthSecurityData_OneShort(tvb, offset) ==
    (tvb_captured_length_remaining(tvb, offset) - 1) % 65536

LengthSecurityData(tvb, offset) ==
    tvb_captured_length_remaining(tvb, offset) % 65536

\* dissect_pn_user_data (outside this file) marks `length` bytes from
\* `offset` as data and returns the offset behind them
dissect_pn_user_data(tvb, offset, length) == offset + length

\* length of the VendorDeviceErrorInfo data: tvb_captured_length(tvb) -
\* offset - 16 (handed over as uint32_t; a negative value stands for that
\* value + 2^32, and offset + length then wraps back to the signed sum)
ErrInfoDataLength(tvb, offset) == tvb_captured_length(tvb) - offset - 16

\* ERR-RTA of the security variant: PNIOStatus, then VendorID, DeviceID and
\* data when bytes remain
Security_ERR(ft, rt, tvb, off) ==
    IF ~tvb_bytes_exist(tvb, off, PNIO_status_Len)
    THEN [body |-> Thrown(ft, rt, "ERR", off), errinfo |-> NoMarker]
    ELSE
    LET o1 == off + PNIO_status_Len
    IN  IF tvb_captured_length_remaining(tvb, o1) > 0
        THEN IF ~tvb_bytes_exist(tvb, o1, 2 + 2)
             THEN [body |-> Thrown(ft, rt, "ERR", o1), errinfo |-> NoMarker]
             ELSE LET o2  == o1 + 2 + 2
                      len == ErrInfoDataLength(tvb, o2)
                  IN  [body |-> [block |-> "ERR", exc |-> FALSE, note |-> FALSE,
                                 marker |-> NoMarker, fo |-> NoFOpnum,
                                 ud |-> NotEntered(ft, rt,
                                            dissect_pn_user_data(tvb, o2, len))],
                       errinfo |-> [offset |-> o2, length |-> len]]
        ELSE [body |-> [block |-> "ERR", exc |-> FALSE, note |-> FALSE,
                        marker |-> NoMarker, fo |-> NoFOpnum,
                        ud |-> NotEntered(ft, rt, o1)],
              errinfo |-> NoMarker]

\* the switch on u8PDUType of the authentication-only branch
Security_Body(ft, rt, pinfo, tvb, hdr) ==
    LET off == hdr.offset
    IN  CASE hdr.u8PDUType = 3 ->
               [body |-> [block |-> "ACK", exc |-> FALSE, note |-> FALSE,
                          marker |-> NoMarker, fo |-> NoFOpnum,
                          ud |-> NotEntered(ft, rt, off)],
                errinfo |-> NoMarker]
          [] hdr.u8PDUType = 4 -> Security_ERR(ft, rt, tvb, off)
          [] hdr.u8PDUType = 5 ->
               [body |-> dissect_FREQ_RTA_block(ft, rt, pinfo, tvb, off,
                             hdr.u16VarPartLen, hdr.u8MoreFrag,
                             hdr.u16DestinationServiceAccessPoint),
                errinfo |-> NoMarker]
          [] hdr.u8PDUType = 6 ->
               [body |-> dissect_FRSP_RTA_block(ft, rt, pinfo, tvb, off,
                             hdr.u16VarPartLen, hdr.u8MoreFrag),
                errinfo |-> NoMarker]
          [] OTHER -> [body |-> Undecoded(ft, rt, tvb, off), errinfo |-> NoMarker]

\* The header fields of the authentication-only branch: the service access
\* points were read in front of the branch, the remaining fields follow.
SecurityRsiHeader(tvb, offset) ==
    LET o1    == offset + 2
        o2    == o1 + 2
        o3    == AfterPDUType(o2)
    IN  The({
        LET o4    == flags.offset
            o5    == o4 + 2
            o6    == o5 + 2
            o7    == o6 + 2
        IN  [decoded |-> TRUE, at |-> offset,
             u16DestinationServiceAccessPoint |-> tvb_get_ntohs(tvb, offset),
             u16SourceServiceAccessPoint      |-> tvb_get_ntohs(tvb, o1),
             u8PDUType     |-> PDUType(tvb_get_uint8(tvb, o2)),
             u8PDUVersion  |-> PDUVersion(tvb_get_uint8(tvb, o2)),
             flags         |-> flags.fields,
             u8MoreFrag    |-> MoreFrag(flags.fields.u8AddFlags),
             u16SendSeqNum |-> tvb_get_ntohs(tvb, o4),
             u16AckSeqNum  |-> tvb_get_ntohs(tvb, o5),
             u16VarPartLen |-> tvb_get_ntohs(tvb, o6),
             offset        |-> o7]
        : flags \in { dissect_RSIAdditionalFlags(tvb, o3) } })

dissect_PNIO_RSI_with_security(ft, rt, pinfo, tvb, offset) ==
    IF ~tvb_bytes_exist(tvb, offset, SecurityMetaDataLen + ServiceAccessPointsLen)
    THEN [hdr |-> NoHeader, sec |-> NoSecurity,
          body |-> Thrown(ft, rt, "security", offset), offset |-> offset]
    ELSE
    LET u8ProtectionMode == ProtectionMode(tvb_get_uint8(tvb, offset))
        sap    == offset + SecurityMetaDataLen
        off    == sap + ServiceAccessPointsLen
        branch == SecurityBranch(u8ProtectionMode)
        sec    == [decoded |-> TRUE, u8ProtectionMode |-> u8ProtectionMode,
                   branch |-> branch, at |-> off, checksum |-> NoMarker,
                   data |-> NoMarker, errinfo |-> NoMarker, diag |-> {}]
        saps   == [NoHeader EXCEPT
                     !.at = sap,
                     !.u16DestinationServiceAccessPoint = tvb_get_ntohs(tvb, sap),
                     !.u16SourceServiceAccessPoint = tvb_get_ntohs(tvb, sap + 2),
                     !.offset = off]
    IN  CASE branch = "authentication" ->
               IF ~tvb_bytes_exist(tvb, sap, RsiHeaderLen)
               THEN [hdr |-> saps, sec |-> sec,
                     body |-> Thrown(ft, rt, "header", off), offset |-> off]
               ELSE
               The({ The({
               LET end == b.body.ud.offset
               IN  IF b.body.exc
                   THEN [hdr |-> hdr, sec |-> [sec EXCEPT !.errinfo = b.errinfo],
                         body |-> b.body, offset |-> end]
                   ELSE [hdr |-> hdr,
                         sec |-> [sec EXCEPT
                                    !.errinfo = b.errinfo,
                                    !.checksum = SecurityChecksumItem(tvb, end)],
                         body |-> b.body,
                         offset |-> end + u8LengthSecurityChecksum]
               : b \in { Security_Body(ft, rt, pinfo, tvb, hdr) } })
               : hdr \in { SecurityRsiHeader(tvb, sap) } })
          [] branch = "encryption" ->
               LET len == LengthSecurityData(tvb, off)
               IN  [hdr |-> saps,
                    sec |-> [sec EXCEPT !.data = [offset |-> off, length |-> len]],
                    body |-> [block |-> "SecurityData", exc |-> FALSE,
                              note |-> FALSE, marker |-> NoMarker,
                              fo |-> NoFOpnum, ud |-> NotEntered(ft, rt, off + len)],
                    offset |-> off + len]
          [] OTHER ->
               [hdr |-> saps, sec |-> sec,
                body |-> [block |-> "", exc |-> FALSE, note |-> FALSE,
                          marker |-> NoMarker, fo |-> NoFOpnum,
                          ud |-> NotEntered(ft, rt, off)],
                offset |-> off]

(* ------------------------------ frames --------------------------------- *)
\* The PDUs the capture is made of: the header fields of a frame and the
\* bytes that follow its FOpnumOffset field.  The AdditionalFlags byte is
\* chosen separately.
\*   Read request, first segment (Offset 0): RspMaxLength, payload 01
\*   Write response, continuation (Offset 4): payload 02 03
\*   Read request whose computed payload length is 0 (VarPartLen 8)
\*   Read request, first segment, cut off inside RspMaxLength
Headers ==
    { [dsap |-> 1, u8PDUType |-> 21, fopnum |-> <<2, 0, 0, 0>>, vpl |-> 12,
       body |-> Zeros(4) \o <<1>>],
      [dsap |-> 1, u8PDUType |-> 22, fopnum |-> <<3, 0, 0, 4>>, vpl |-> 6,
       body |-> <<2, 3>>],
      [dsap |-> 1, u8PDUType |-> 21, fopnum |-> <<2, 0, 0, 0>>, vpl |-> 8,
       body |-> Zeros(4) \o <<1>>],
      [dsap |-> 1, u8PDUType |-> 21, fopnum |-> <<2, 0, 0, 0>>, vpl |-> 12,
       body |-> Zeros(2)] }

\* AdditionalFlags bytes: MoreFrag clear / MoreFrag set (bit 5)
AddFlags == {0, 32}

\* the bytes of a frame, in wire order
Encode(h, u8AddFlags) ==
    << h.dsap \div 256, h.dsap % 256, 0, 0, h.u8PDUType, u8AddFlags,
       0, 0, 0, 0, h.vpl \div 256, h.vpl % 256 >>
    \o h.fopnum \o h.body

Frames == { Encode(h, a) : h \in Headers, a \in AddFlags }

(* ------------------------------- state --------------------------------- *)

VARIABLES
    frames,             \* the capture: frame number -> [flow, tvb]
    fragment_table,     \* pn_rsi_reassembly_table: groups in progress
    reassembled_table,  \* pn_rsi_reassembly_table: completed groups
    last                \* what the most recent dissection of a frame did

vars == <<frames, fragment_table, reassembled_table, last>>

NoCall ==
    [num |-> 0, visited |-> FALSE, block |-> "", exc |-> FALSE, note |-> FALSE,
     marker |-> NoMarker, fo |-> NoFOpnum,
     hdr |-> NoHeader, sec |-> NoSecurity,
     path |-> "none", fn |-> "", buf |-> <<>>, start |-> 0, opnum |-> -1,
     type |-> "", reassembled_in |-> 0, args |-> NoArgs,
     offset |-> 0, aborted |-> FALSE]

Init ==
    /\ frames = <<>>
    /\ fragment_table = EmptyFragmentTable
    /\ reassembled_table = EmptyReassembledTable
    /\ last = NoCall

\* a tree item over `length` bytes from `offset` lies inside the buffer
ItemFits(tvb, item) ==
    item.length >= 0 /\ item.offset + item.length <= tvb_captured_length(tvb)

\* The call may be unwound by an exception after the reassembly tables were
\* updated: the block decoder the payload is handed to may run past the end
\* of its buffer, and adding a tree item that does not lie inside the buffer
\* throws when the tree is built.
MayThrow(tvb, r) ==
    \/ r.body.ud.fn # ""
    \/ ~ItemFits(tvb, r.body.marker)
    \/ ~ItemFits(tvb, r.sec.checksum)
    \/ ~ItemFits(tvb, r.sec.data)
    \/ ~ItemFits(tvb, r.sec.errinfo)

\* the entry point the frame is handed to
Dissector(ft, rt, pinfo, frame) ==
    IF frame.sec
    THEN dissect_PNIO_RSI_with_security(ft, rt, pinfo, frame.tvb, 0)
    ELSE dissect_PNIO_RSI(ft, rt, pinfo, frame.tvb, 0)

\* One call of dissect_PNIO_RSI or dissect_PNIO_RSI_with_security for frame
\* `num`.
Dissect(num, visited, frame) ==
    \E index \in ConvIndexRead(frame.flow) :
    \E r \in { Dissector(fragment_table, reassembled_table,
                   PacketInfo(num, visited, frame.flow, index), frame) } :
    \E ud \in { r.body.ud } :
    \E aborted \in (IF MayThrow(frame.tvb, r) THEN BOOLEAN ELSE {FALSE}) :
        /\ fragment_table' = ud.ft
        /\ reassembled_table' = ud.rt
        /\ last' = [num |-> num, visited |-> visited, block |-> r.body.block,
                    exc |-> r.body.exc, note |-> r.body.note,
                    marker |-> r.body.marker, fo |-> r.body.fo,
                    hdr |-> r.hdr, sec |-> r.sec,
                    path |-> ud.path,
                    fn |-> ud.fn, buf |-> ud.buf, start |-> ud.start,
                    opnum |-> ud.opnum, type |-> ud.type,
                    reassembled_in |-> ud.reassembled_in, args |-> ud.args,
                    offset |-> r.offset, aborted |-> aborted]

\* a new frame arrives and is dissected for the first time
Receive ==
    /\ Len(frames) < MaxFrames
    /\ \E flow \in Flows, tvb \in Frames :
         \E frame \in { [flow |-> flow, tvb |-> tvb, sec |-> FALSE] } :
             /\ frames' = Append(frames, frame)
             /\ Dissect(Len(frames) + 1, FALSE, frame)

\* a frame of the capture is dissected again
Revisit ==
    /\ last.path # "crash"
    /\ \E num \in 1..Len(frames) :
        /\ frames' = frames
        /\ Dissect(num, TRUE, frames[num])

Next == Receive \/ Revisit

Spec == Init /\ [][Next]_vars

(* ---------------- captures of request PDUs of every opcode ------------- *)
\* FREQ PDUs with every opcode 0..31, CallSequence 7, first and later
\* segments, addressed to the CON-SAP and to endpoints that share one byte
\* or none with it.  Each carries 12 bytes for fixed fields and one payload
\* byte.
DSAPs == {0, 255, 65280, 65535}

FreqFrames ==
    { Encode([dsap |-> d, u8PDUType |-> 21,
              fopnum |-> <<cs * 32 + op, 0, 0, off>>, vpl |-> 13,
              body |-> Zeros(12) \o <<1>>], 0) :
        d \in DSAPs, cs \in {7}, op \in 0..31, off \in {0, 4} }

\* a request PDU arrives and is dissected for the first time
ReceiveFREQ ==
    /\ Len(frames) < MaxFreqFrames
    /\ \E tvb \in FreqFrames :
         \E frame \in { [flow |-> "A", tvb |-> tvb, sec |-> FALSE] } :
             /\ frames' = Append(frames, frame)
             /\ Dissect(Len(frames) + 1, FALSE, frame)

NextDispatch == ReceiveFREQ \/ Revisit

SpecDispatch == Init /\ [][NextDispatch]_vars

(* ------------- captures of PDUs of every type / flags / opcode --------- *)

\* Number of frames of a capture made of one of the catalogues below.
MaxHeaderFrames == 1

\* every PDUType/Version byte, MoreFrag set; a body that every PDU type can
\* decode (FOpnumOffset of a Read request, four bytes for RspMaxLength or
\* PNIOStatus, one payload byte)
PduFrames ==
    { Encode([dsap |-> 1, u8PDUType |-> t, fopnum |-> <<2, 0, 0, 0>>,
              vpl |-> 12, body |-> Zeros(4) \o <<1>>], 32) : t \in 0..255 }

\* PDUs of every type with version 0 and 15 in the security envelope,
\* authentication only
SecPduFrames ==
    { <<0, 0, 0, 0, 0, 1, 0, 21>>
      \o Encode([dsap |-> 1, u8PDUType |-> v * 16 + t, fopnum |-> <<2, 0, 0, 0>>,
                 vpl |-> 12, body |-> Zeros(4) \o <<1>>], 32)
      \o [i \in 1..16 |-> 9] : v \in {0, 15}, t \in 0..15 }

\* every AdditionalFlags byte in a Read request (DSAP 0x0102, SSAP 0x0304,
\* SendSeqNum 0x0506, AckSeqNum 0x0708, VarPartLen 0x000C)
FlagFrames ==
    { <<1, 2, 3, 4, 21, a, 5, 6, 7, 8, 0, 12>> \o <<2, 0, 0, 0>>
      \o Zeros(4) \o <<1>> : a \in 0..255 }

\* Read requests in the security envelope, authentication only, with every
\* value of the upper five bits of AdditionalFlags and the WindowSize bits
\* all clear or all set
SecFlagFrames ==
    { <<0, 0, 0, 0, 0, 1, 0, 21>>
      \o <<1, 2, 3, 4, 21, 8 * k + w, 5, 6, 7, 8, 0, 12>> \o <<2, 0, 0, 0>>
      \o Zeros(4) \o <<1>> \o [i \in 1..16 |-> 9] : k \in 0..31, w \in {0, 7} }

\* every first byte of FOpnumOffset (CallSequence and Opcode) in a request
\* with Offset 0x010203, and responses with Offset 0xFFFFFF
FOpnumFrames ==
    { Encode([dsap |-> 1, u8PDUType |-> 21, fopnum |-> <<b, 1, 2, 3>>,
              vpl |-> 9, body |-> <<1>>], 0) : b \in 0..255 }
    \cup
    { Encode([dsap |-> 1, u8PDUType |-> 22, fopnum |-> <<b, 255, 255, 255>>,
              vpl |-> 9, body |-> <<1>>], 0) : b \in {0, 31, 224, 245, 255} }

ReceiveFrom(catalogue, bound, sec) ==
    /\ Len(frames) < bound
    /\ \E tvb \in catalogue :
         \E frame \in { [flow |-> "A", tvb |-> tvb, sec |-> sec] } :
             /\ frames' = Append(frames, frame)
             /\ Dissect(Len(frames) + 1, FALSE, frame)

ReceivePDU == ReceiveFrom(PduFrames, MaxHeaderFrames, FALSE)

ReceiveSecurityPDU == ReceiveFrom(SecPduFrames, MaxHeaderFrames, TRUE)

NextPDU == ReceivePDU \/ ReceiveSecurityPDU \/ Revisit

SpecPDU == Init /\ [][NextPDU]_vars

ReceiveFlags == ReceiveFrom(FlagFrames, MaxHeaderFrames, FALSE)

ReceiveSecurityFlags == ReceiveFrom(SecFlagFrames, MaxHeaderFrames, TRUE)

NextFlags == ReceiveFlags \/ ReceiveSecurityFlags \/ Revisit

SpecFlags == Init /\ [][NextFlags]_vars

ReceiveFOpnum == ReceiveFrom(FOpnumFrames, MaxHeaderFrames, FALSE)

NextFOpnum == ReceiveFOpnum \/ Revisit

SpecFOpnum == Init /\ [][NextFOpnum]_vars

(* ------- captures of PDUs of every block with extreme lengths ---------- *)
\* Read, ReadImplicit and SecurityAssociationControl requests and Read
\* responses to an ordinary endpoint, and a SecurityAssociationControl
\* request to the CON-SAP, with Offset 0, 8, 9 and 0xFFFFFF, VarPartLen 0, 8,
\* 9, 0x0598, 0x0599 and 0xFFFF, MoreFrag clear and set.  Each carries 12
\* bytes for fixed fields and one payload byte.
LenFrames ==
    { Encode([dsap |-> k[3], u8PDUType |-> k[1],
              fopnum |-> <<k[2]>> \o off, vpl |-> vpl,
              body |-> Zeros(12) \o <<1>>], a) :
        k \in { <<21, 2, 1>>, <<21, 5, 1>>, <<21, 10, 1>>, <<21, 10, 65535>>,
                <<22, 2, 1>> },
        off \in { <<0, 0, 0>>, <<0, 0, 8>>, <<0, 0, 9>>, <<255, 255, 255>> },
        vpl \in {0, 8, 9, 1432, 1433, 65535},
        a \in AddFlags }

\* responses with every opcode 0..31, first and later segments, MoreFrag
\* clear and set
RspFrames ==
    { Encode([dsap |-> 1, u8PDUType |-> 22,
              fopnum |-> <<op, 0, 0, off>>, vpl |-> 13,
              body |-> Zeros(12) \o <<1>>], a) :
        op \in 0..31, off \in {0, 4}, a \in AddFlags }

ReceiveLen == ReceiveFrom(LenFrames, MaxHeaderFrames, FALSE)

ReceiveRSP == ReceiveFrom(RspFrames, MaxHeaderFrames, FALSE)

NextBlocks == ReceiveLen \/ ReceiveRSP \/ Revisit

SpecBlocks == Init /\ [][NextBlocks]_vars

(* ------- captures with arrivals for which no conversation exists ------- *)

\* Number of frames of such a capture.
MaxNoFlowFrames == 2

\* a frame arrives on one of the flows or without a conversation and is
\* dissected for the first time; nothing arrives once the process is gone
ReceiveNoFlow ==
    /\ Len(frames) < MaxNoFlowFrames
    /\ last.path # "crash"
    /\ \E flow \in Flows \cup {NULL}, tvb \in Frames :
         \E frame \in { [flow |-> flow, tvb |-> tvb, sec |-> FALSE] } :
             /\ frames' = Append(frames, frame)
             /\ Dissect(Len(frames) + 1, FALSE, frame)

NextNoFlow == ReceiveNoFlow \/ Revisit

SpecNoFlow == Init /\ [][NextNoFlow]_vars

(* -------- captures of PDUs of different calls on the same flows -------- *)

\* Number of frames of such a capture.
MaxCallFrames == 2

\* A Read request of call 0 to endpoint 1 from endpoint 1 at Offset 0, the
\* PDUs that differ from it in one of DestinationServiceAccessPoint,
\* SourceServiceAccessPoint, PDU type, CallSequence, Opcode and Offset, and
\* one that differs in all of them.  The last body byte tells them apart.
Calls ==
    { [dsap |-> 1, ssap |-> 1, u8PDUType |-> 21, cs |-> 0, op |-> 2, off |-> 0, id |-> 1],
      [dsap |-> 2, ssap |-> 1, u8PDUType |-> 21, cs |-> 0, op |-> 2, off |-> 0, id |-> 2],
      [dsap |-> 1, ssap |-> 2, u8PDUType |-> 21, cs |-> 0, op |-> 2, off |-> 0, id |-> 3],
      [dsap |-> 1, ssap |-> 1, u8PDUType |-> 22, cs |-> 0, op |-> 2, off |-> 0, id |-> 4],
      [dsap |-> 1, ssap |-> 1, u8PDUType |-> 21, cs |-> 1, op |-> 2, off |-> 0, id |-> 5],
      [dsap |-> 1, ssap |-> 1, u8PDUType |-> 21, cs |-> 0, op |-> 3, off |-> 0, id |-> 6],
      [dsap |-> 1, ssap |-> 1, u8PDUType |-> 21, cs |-> 0, op |-> 2, off |-> 4, id |-> 7],
      [dsap |-> 2, ssap |-> 2, u8PDUType |-> 22, cs |-> 1, op |-> 3, off |-> 4, id |-> 8] }

CallFrames ==
    { [ Encode([dsap |-> c.dsap, u8PDUType |-> c.u8PDUType,
                fopnum |-> <<c.cs * 32 + c.op, 0, 0, c.off>>, vpl |-> 13,
                body |-> Zeros(4) \o <<c.id>>], a)
        EXCEPT ![4] = c.ssap ] : c \in Calls, a \in AddFlags }

\* a PDU of one of the calls arrives on one of the flows
ReceiveCall ==
    /\ Len(frames) < MaxCallFrames
    /\ \E flow \in Flows, tvb \in CallFrames :
         \E frame \in { [flow |-> flow, tvb |-> tvb, sec |-> FALSE] } :
             /\ frames' = Append(frames, frame)
             /\ Dissect(Len(frames) + 1, FALSE, frame)

NextCalls == ReceiveCall \/ Revisit

SpecCalls == Init /\ [][NextCalls]_vars

(* ------ captures with PDUs that carry no payload for the engine -------- *)

\* Number of frames of such a capture.
MaxOtherFrames == 2

\* ACK, ERR and reserved-type PDUs whose bytes behind the header look like a
\* Read request, requests with the reserved opcodes 1 and 31, and Read
\* requests / responses whose computed payload length is 0 or negative,
\* MoreFrag clear and set
OtherFrames ==
    { Encode(h, a) :
        h \in { [dsap |-> 1, u8PDUType |-> t, fopnum |-> <<2, 0, 0, 0>>,
                 vpl |-> 13, body |-> Zeros(4) \o <<1>>] : t \in {19, 20, 23} }
              \cup
              { [dsap |-> 1, u8PDUType |-> 21, fopnum |-> <<op, 0, 0, 0>>,
                 vpl |-> 13, body |-> Zeros(4) \o <<1>>] : op \in {1, 31} }
              \cup
              { [dsap |-> 1, u8PDUType |-> k[1], fopnum |-> <<2, 0, 0, k[2]>>,
                 vpl |-> k[3], body |-> Zeros(4) \o <<1>>] :
                    k \in { <<21, 0, 8>>, <<21, 8, 0>>, <<22, 0, 0>>, <<22, 1, 7>> } },
        a \in AddFlags }

\* a PDU that hands payload to the engine arrives
ReceiveSegment ==
    /\ Len(frames) < MaxOtherFrames
    /\ \E flow \in Flows, tvb \in Frames :
         \E frame \in { [flow |-> flow, tvb |-> tvb, sec |-> FALSE] } :
             /\ frames' = Append(frames, frame)
             /\ Dissect(Len(frames) + 1, FALSE, frame)

\* a PDU without payload for the engine arrives
ReceiveOther ==
    /\ Len(frames) < MaxOtherFrames
    /\ \E flow \in Flows, tvb \in OtherFrames :
         \E frame \in { [flow |-> flow, tvb |-> tvb, sec |-> FALSE] } :
             /\ frames' = Append(frames, frame)
             /\ Dissect(Len(frames) + 1, FALSE, frame)

NextOther == ReceiveSegment \/ ReceiveOther \/ Revisit

SpecOther == Init /\ [][NextOther]_vars

(* ------------------- captures of security-wrapped PDUs ----------------- *)

\* Number of frames of a capture of security-wrapped PDUs.
MaxSecFrames == 2

\* SecurityInformation bytes: ProtectionMode 0 and 1 with the reserved high
\* bits clear and set, and two values that are neither
Informations == {0, 240, 1, 241, 2, 15}

\* the 16 bytes of a SecurityChecksum
Checksum == [i \in 1..16 |-> 9]

\* the RSI PDUs wrapped: ACK; ERR with VendorDeviceErrorInfo; Read request,
\* first segment, last and not last; Write response, continuation, last and
\* not last; a PDU of a reserved type; a request with a reserved opcode
SecPdus ==
    { <<0, 1, 0, 0, 19, 0, 0, 0, 0, 0, 0, 0>>,
      <<0, 1, 0, 0, 20, 0, 0, 0, 0, 0, 0, 10>> \o <<0, 0, 0, 0, 1, 2, 3, 4, 5, 6>>,
      Encode([dsap |-> 1, u8PDUType |-> 21, fopnum |-> <<2, 0, 0, 0>>,
              vpl |-> 12, body |-> Zeros(4) \o <<1>>], 0),
      Encode([dsap |-> 1, u8PDUType |-> 21, fopnum |-> <<2, 0, 0, 0>>,
              vpl |-> 12, body |-> Zeros(4) \o <<1>>], 32),
      Encode([dsap |-> 1, u8PDUType |-> 22, fopnum |-> <<3, 0, 0, 4>>,
              vpl |-> 6, body |-> <<2, 3>>], 0),
      Encode([dsap |-> 1, u8PDUType |-> 22, fopnum |-> <<3, 0, 0, 4>>,
              vpl |-> 6, body |-> <<2, 3>>], 32),
      <<0, 1, 0, 0, 23, 0, 0, 0, 0, 0, 0, 0>>,
      Encode([dsap |-> 1, u8PDUType |-> 21, fopnum |-> <<1, 0, 0, 0>>,
              vpl |-> 12, body |-> Zeros(4)], 0) }

\* SecurityMetaData (Information, Control, SecuritySequenceCounter 1,
\* SecurityLength), the PDU, the SecurityChecksum
SecFrames ==
    { <<i, 0, 0, 0, 0, 1, 0, Len(p) % 256>> \o p \o Checksum :
        i \in Informations, p \in SecPdus }

ReceiveSecurity == ReceiveFrom(SecFrames, MaxSecFrames, TRUE)

NextSecurity == ReceiveSecurity \/ Revisit

SpecSecurity == Init /\ [][NextSecurity]_vars

(* ----------------- the conversation of an arrival ---------------------- *)
(* The lookup at the head of dissect_pn_rta_remaining_user_data_bytes,       *)
(* modelled on its own: `frames` holds the arrivals with their addressing    *)
(* and the conversation index they resolved to, `last` the most recent       *)
(* lookup and the conversations that exist.                                  *)

\* Number of arrivals looked up.
MaxLookups == 2

\* addresses, ports and COTP references of the arrivals
Addresses == {"a", "b"}

Ports == {0, 1}

Refs == {0, 1}

\* the pair of numbers the conversation is looked up with
\* (mutant: the ports are used as soon as one of them is set)
ConversationPorts_EitherPort(pinfo) ==
    IF pinfo.srcport # 0 \/ pinfo.destport # 0
    THEN <<pinfo.srcport, pinfo.destport>>
    ELSE <<pinfo.clnp_srcref, pinfo.clnp_dstref>>

ConversationPorts(pinfo) ==
    IF pinfo.srcport # 0 /\ pinfo.destport # 0
    THEN <<pinfo.srcport, pinfo.destport>>
    ELSE <<pinfo.clnp_srcref, pinfo.clnp_dstref>>

\* arguments of find_conversation / conversation_new
ConversationKey(pinfo) == <<pinfo.src, pinfo.dst>> \o ConversationPorts(pinfo)

\* find_conversation: the indexes of the conversations with these addresses
\* and numbers (none or one)
find_conversation(conversations, key) ==
    { i \in 1..Len(conversations) : conversations[i] = key }

\* conversation_new: one more conversation, with the next index
conversation_new(conversations, key) == Append(conversations, key)

\* the conversations that exist
Conversations == IF last.num = 0 THEN <<>> ELSE last.conversations

\* conv = find_conversation(...); if (!conv) conv = conversation_new(...);
\* then conv->conv_index is used
Lookup ==
    /\ Len(frames) < MaxLookups
    /\ \E src \in Addresses, dst \in Addresses, srcport \in Ports,
          destport \in Ports, clnp_srcref \in Refs, clnp_dstref \in Refs :
        \E pinfo \in { [src |-> src, dst |-> dst, srcport |-> srcport,
                         destport |-> destport, clnp_srcref |-> clnp_srcref,
                         clnp_dstref |-> clnp_dstref] } :
        \E conv \in { find_conversation(Conversations, ConversationKey(pinfo)) } :
        \E after \in { IF conv = {}
                        THEN conversation_new(Conversations, ConversationKey(pinfo))
                        ELSE Conversations } :
        \E index \in (IF conv = {} THEN {Len(after)} ELSE conv) :
            /\ frames' = Append(frames, [flow |-> index, tvb |-> <<>>,
                                         sec |-> FALSE, pinfo |-> pinfo])
            /\ last' = [num |-> Len(frames) + 1, block |-> "conversation",
                        pinfo |-> pinfo, conversations |-> after,
                        conv_index |-> index, created |-> (conv = {})]
            /\ UNCHANGED <<fragment_table, reassembled_table>>

NextConversations == Lookup

SpecConversations == Init /\ [][NextConversations]_vars

(* -------------- captures of security-wrapped ERR PDUs ------------------ *)
\* Largest number of bytes behind the status of an ERR PDU.
MaxErrTail == 40

\* authentication-only ERR PDUs: the envelope, the RSI header, the 4-byte
\* status and 0..MaxErrTail further bytes (VendorID, DeviceID, Data and
\* SecurityChecksum as far as they are there), MoreFrag clear and set
ErrFrames ==
    { <<0, 0, 0, 0, 0, 1, 0, 16 + k>>
      \o <<0, 1, 0, 0, 20, a, 0, 0, 0, 0, 0, 4 + k>>
      \o Zeros(4) \o [i \in 1..k |-> i] : k \in 0..MaxErrTail, a \in AddFlags }

ReceiveERR == ReceiveFrom(ErrFrames, MaxHeaderFrames, TRUE)

NextERR == ReceiveERR \/ Revisit

SpecERR == Init /\ [][NextERR]_vars

(* ------------------- dissect_PDRsiInstances_block ---------------------- *)
(* The decoder is modelled step by step: the version check and the read of  *)
(* NumberOfEntries, one step per iteration of the while loop, and the       *)
(* SystemIdentification strings.  `last` holds the call in progress: the    *)
(* local variables, the cursor, the tree items added so far and the expert  *)
(* infos.                                                                   *)

\* Largest NumberOfEntries of the blocks decoded.
MaxEntries == 3

deviceType_size       == 25
orderID_size          == 20
IMserialnumber_size   == 16
HWrevision_size       == 5
SWrevisionprefix_size == 1
SWrevision_size       == 9

\* dissect_pn_padding (outside this file) marks `length` padding bytes and
\* returns the offset behind them
dissect_pn_padding(tvb, offset, length) == offset + length

\* if (u8BlockVersionHigh != 1 || u8BlockVersionLow != 0) is false
\* (variant: only the high byte is tested)
BlockVersionSupported_HighOnly(u8BlockVersionHigh, u8BlockVersionLow) == u8BlockVersionHigh = 1

BlockVersionSupported(u8BlockVersionHigh, u8BlockVersionLow) == ~(u8BlockVersionHigh # 1 \/ u8BlockVersionLow # 0)

\* the expert info ei_pn_rsi_error: PI_UNDECODED, PI_NOTE
ei_pn_rsi_error(u8BlockVersionHigh, u8BlockVersionLow) ==
    [group |-> "PI_UNDECODED", severity |-> "PI_NOTE",
     text |-> "Block version not implemented yet!",
     high |-> u8BlockVersionHigh, low |-> u8BlockVersionLow]

\* the fields of one pass of the loop: name, offset in the record, length
PDRsiInstanceFields ==
    << [name |-> "VendorID", rel |-> 0, length |-> 2],
       [name |-> "DeviceID", rel |-> 2, length |-> 2],
       [name |-> "InstanceID", rel |-> 2 + 2, length |-> 2],
       [name |-> "RsiInterface", rel |-> 2 + 2 + 2, length |-> 1],
       [name |-> "Padding", rel |-> 2 + 2 + 2 + 1, length |-> 1] >>

\* the fields of one pass that can be read from the buffer; a read past the
\* end of the buffer throws, the fields in front of it were added
InstanceItems(tvb, offset) ==
    LET k == Cardinality({ i \in DOMAIN PDRsiInstanceFields :
                 tvb_bytes_exist(tvb, offset,
                     PDRsiInstanceFields[i].rel + PDRsiInstanceFields[i].length) })
    IN  [i \in 1..k |-> [name   |-> PDRsiInstanceFields[i].name,
                         offset |-> offset + PDRsiInstanceFields[i].rel,
                         length |-> PDRsiInstanceFields[i].length]]

\* offset += size + 1 behind a string that is followed by a blank
\* (variant: the blank is not skipped)
AfterString_NoBlank(offset, size) == offset + size

AfterString(offset, size) == offset + size + 1

\* the six SystemIdentification strings and the cursor behind them
SystemIdentification(offset) ==
    LET o1 == AfterString(offset, deviceType_size)
        o2 == AfterString(o1, orderID_size)
        o3 == AfterString(o2, IMserialnumber_size)
        o4 == AfterString(o3, HWrevision_size)
        o5 == o4 + SWrevisionprefix_size
        o6 == o5 + SWrevision_size
    IN  [items |->
           << [name |-> "DeviceType", offset |-> offset, length |-> deviceType_size],
              [name |-> "OrderID", offset |-> o1, length |-> orderID_size],
              [name |-> "IM_Serial_Number", offset |-> o2,
               length |-> IMserialnumber_size],
              [name |-> "HWRevision", offset |-> o3, length |-> HWrevision_size],
              [name |-> "SWRevisionPrefix", offset |-> o4,
               length |-> SWrevisionprefix_size],
              [name |-> "SWRevision", offset |-> o5, length |-> SWrevision_size] >>,
         offset |-> o6]

\* blocks: `at` bytes in front, NumberOfEntries n, n records, the strings,
\* the last `cut` bytes missing
PDRsiBlocks ==
    { [at |-> at,
       tvb |-> SubSeq(Zeros(at) \o <<0, n>> \o [i \in 1..(8 * n) |-> 1 + (i % 8)]
                      \o [i \in 1..80 |-> 65], 1, at + 2 + 8 * n + 80 - cut)]
      : at \in {0, 6}, n \in 0..MaxEntries, cut \in {0, 1, 83} }

BlockVersions == { <<1, 0>>, <<1, 1>>, <<0, 0>>, <<2, 0>>, <<0, 1>> }

\* lines 1051-1060: the version check and NumberOfEntries
PDRsi_Enter ==
    /\ last.num = 0
    /\ \E b \in PDRsiBlocks, v \in BlockVersions :
         /\ frames' = <<[flow |-> "A", tvb |-> b.tvb, sec |-> FALSE]>>
         /\ last' =
              LET call == [num |-> 1, block |-> "PDRsiInstances", at |-> b.at,
                           u8BlockVersionHigh |-> v[1], u8BlockVersionLow |-> v[2],
                           u16NumberOfEntries |-> 0, iterations |-> 0,
                           items |-> <<>>, expert |-> <<>>, exc |-> FALSE,
                           aborted |-> FALSE, offset |-> b.at, pc |-> "return"]
              IN  IF ~BlockVersionSupported(v[1], v[2])
                  THEN [call EXCEPT !.expert = <<ei_pn_rsi_error(v[1], v[2])>>]
                  ELSE IF ~tvb_bytes_exist(b.tvb, b.at, 2)
                  THEN [call EXCEPT !.exc = TRUE]
                  ELSE [call EXCEPT
                          !.u16NumberOfEntries = tvb_get_ntohs(b.tvb, b.at),
                          !.items = <<[name |-> "NumberOfEntries",
                                       offset |-> b.at, length |-> 2]>>,
                          !.offset = b.at + 2,
                          !.pc = "while"]
    /\ UNCHANGED <<fragment_table, reassembled_table>>

\* lines 1062-1086: one pass of while (u16NumberOfEntries > 0)
PDRsi_Instance ==
    /\ last.num # 0 /\ last.block = "PDRsiInstances" /\ last.pc = "while"
    /\ last.u16NumberOfEntries > 0
    /\ \E items \in { InstanceItems(frames[1].tvb, last.offset) } :
         last' = IF Len(items) < Len(PDRsiInstanceFields)
                 THEN [last EXCEPT
                         !.u16NumberOfEntries = (@ - 1) % 65536,
                         !.iterations = @ + 1,
                         !.items = @ \o items,
                         !.exc = TRUE, !.pc = "return"]
                 ELSE [last EXCEPT
                         !.u16NumberOfEntries = (@ - 1) % 65536,
                         !.iterations = @ + 1,
                         !.items = @ \o items,
                         !.offset = dissect_pn_padding(frames[1].tvb,
                                        items[Len(items)].offset, 1)]
    /\ UNCHANGED <<frames, fragment_table, reassembled_table>>

\* lines 1088-1120: the loop has ended; the strings are added and the cursor
\* is returned.  Adding an item that does not lie inside the buffer throws
\* when the tree is built.
PDRsi_SystemIdentification ==
    /\ last.num # 0 /\ last.block = "PDRsiInstances" /\ last.pc = "while"
    /\ ~(last.u16NumberOfEntries > 0)
    /\ \E id \in { SystemIdentification(last.offset) } :
       \E fit \in { Cardinality({ i \in DOMAIN id.items :
                        ItemFits(frames[1].tvb, id.items[i]) }) } :
       \E aborted \in (IF fit < Len(id.items) THEN BOOLEAN ELSE {FALSE}) :
         last' = IF aborted
                 THEN [last EXCEPT !.items = @ \o SubSeq(id.items, 1, fit),
                                   !.aborted = TRUE, !.pc = "return"]
                 ELSE [last EXCEPT !.items = @ \o id.items,
                                   !.offset = id.offset, !.pc = "return"]
    /\ UNCHANGED <<frames, fragment_table, reassembled_table>>

NextPDRsi == PDRsi_Enter \/ PDRsi_Instance \/ PDRsi_SystemIdentification

SpecPDRsi == Init /\ [][NextPDRsi]_vars

(* ======================================================================= *)
(* What the wire format says about a frame (PROFINET RSI PDU layout), used  *)
(* to state the properties independently of the decoder's own operators.    *)
(* ======================================================================= *)

WireDSAP(tvb)       == tvb[1] * 256 + tvb[2]
WirePDUType(tvb)    == tvb[5] % 16
WireMoreFrag(tvb)   == tvb[6] \in {32 + 64 * i + j : i \in 0..3, j \in 0..31}
WireVarPartLen(tvb) == tvb[11] * 256 + tvb[12]
WireOpnum(tvb)      == tvb[13] % 32
WireOffset(tvb)     == tvb[14] * 65536 + tvb[15] * 256 + tvb[16]

\* the block kind the protocol table assigns to a request opcode
WireBlock(tvb) ==
    LET op == WireOpnum(tvb)
    IN  IF op = 0 THEN (IF WireDSAP(tvb) = 65535 THEN "CONN" ELSE "SVCS")
        ELSE IF op \in {5, 6} THEN "CONN"
        ELSE IF op \in {2, 3, 4, 7, 8, 9} THEN "SVCS"
        ELSE IF op = 10 THEN "SecurityAssociationControl"
        ELSE "undecoded"

\* bytes of fixed block fields in front of the payload
WireFixedLen(tvb) ==
    IF WireOffset(tvb) # 0 THEN 0
    ELSE IF WirePDUType(tvb) = 6 THEN 4
    ELSE IF WireBlock(tvb) = "CONN" THEN 12
    ELSE IF WireBlock(tvb) = "SecurityAssociationControl" /\ WireDSAP(tvb) = 65535 THEN 12
    ELSE 4

\* offset of the first payload byte
WirePayloadOffset(tvb) == 16 + WireFixedLen(tvb)

\* the frame hands payload bytes to the reassembly engine
WireHandsOff(tvb) ==
    /\ Len(tvb) >= 16
    /\ WirePDUType(tvb) \in {5, 6}
    /\ WirePDUType(tvb) = 5 => WireBlock(tvb) # "undecoded"
    /\ WireOffset(tvb) + WireVarPartLen(tvb) - 8 > 0
    /\ Len(tvb) >= WirePayloadOffset(tvb)

WirePayload(tvb) == SubSeq(tvb, WirePayloadOffset(tvb) + 1, Len(tvb))

\* frame n is an arrival of flow fl that reaches the reassembly engine
Engine(n, fl) == frames[n].flow = fl /\ WireHandsOff(frames[n].tvb)

\* the last arrival before n with MoreFrag=false that reached the engine on
\* the flow of n (0 if there is none): the flow is Idle right after it
LastTerminalBefore(n) ==
    LET S == { j \in 1..(n - 1) : Engine(j, frames[n].flow)
                                   /\ ~WireMoreFrag(frames[j].tvb) }
    IN  IF S = {} THEN 0 ELSE CHOOSE j \in S : \A k \in S : k <= j

\* the arrivals that make up the group arrival n contributes to
GroupOf(n) ==
    { j \in (LastTerminalBefore(n) + 1)..n : Engine(j, frames[n].flow) }

\* arrival n completes a group of at least two arrivals
Completing(n) ==
    /\ n \in 1..Len(frames)
    /\ Engine(n, frames[n].flow)
    /\ ~WireMoreFrag(frames[n].tvb)
    /\ GroupOf(n) # {n}

\* payloads of the arrivals lo..hi that belong to group G, in arrival order
RECURSIVE PayloadsOf(_, _, _)
PayloadsOf(G, lo, hi) ==
    IF lo > hi THEN <<>>
    ELSE (IF lo \in G THEN WirePayload(frames[lo].tvb) ELSE <<>>)
         \o PayloadsOf(G, lo + 1, hi)

\* the segments of group G, in arrival order
RECURSIVE SegmentsOf(_, _, _)
SegmentsOf(G, lo, hi) ==
    IF lo > hi THEN <<>>
    ELSE (IF lo \in G
          THEN <<[frame |-> lo, data |-> WirePayload(frames[lo].tvb)]>>
          ELSE <<>>)
         \o SegmentsOf(G, lo + 1, hi)

\* the frame the most recent dissection was about
LastFrame == frames[last.num]

(* ------------------------------- C1 ------------------------------------ *)
\* C1: when an arrival with MoreFrag=false completes a group (k >= 1 earlier
\* arrivals with MoreFrag=true on its flow), the buffer handed to the block
\* decoder is the concatenation of the payloads of all arrivals of the group
\* in arrival order, and the decode starts at offset 0 of that buffer.
C1_ReassembledIsConcatenation ==
    (last.num # 0 /\ Completing(last.num)) =>
        /\ last.fn = "dissect_rsi_blocks"
        /\ last.buf = PayloadsOf(GroupOf(last.num), 1, last.num)
        /\ last.start = 0

\* three arrivals on one flow, first visit of the completing one
C1_Witness ==
    /\ last.num = 3 /\ ~last.visited
    /\ Completing(3) /\ GroupOf(3) = {1, 2, 3}
    /\ last.buf = <<1, 2, 3, 1>>

(* ------------------------------- C2 ------------------------------------ *)
\* C2: the reassembled buffer of a group is decoded by the completing arrival
\* and by no other: a dissection decodes a reassembled buffer exactly when
\* its frame is the completing arrival of a group, and every record of a
\* completed group names the completing arrival of that very group.
C2_DecodeOnlyAtCompletingArrival ==
    /\ last.num # 0 =>
          ((last.fn = "dissect_rsi_blocks") <=> Completing(last.num))
    /\ \A k \in ReassKeys :
          reassembled_table[k] # NoHead =>
              /\ Completing(reassembled_table[k].reassembled_in)
              /\ k[1] \in GroupOf(reassembled_table[k].reassembled_in)
              /\ k[2] = frames[k[1]].flow

\* an earlier member of a completed group is dissected again and decodes nothing
C2_Witness ==
    /\ last.num # 0 /\ last.visited
    /\ \E c \in 1..Len(frames) :
          Completing(c) /\ last.num \in GroupOf(c) /\ last.num # c
    /\ last.fn = ""

(* ------------------------------- C3 ------------------------------------ *)
\* C3: an arrival with MoreFrag=false that reaches the reassembly engine
\* while its flow has no group in progress and the frame is no member of a
\* completed group is standalone: its payload is decoded at once from the
\* arriving buffer at the current offset, nothing is buffered and the
\* reassembly state is left as it was.
C3_StandaloneLeavesStateUnchanged ==
    [][ \A fl \in Flows :
          ( /\ frames'[last'.num].flow = fl
            /\ WireHandsOff(frames'[last'.num].tvb)
            /\ ~WireMoreFrag(frames'[last'.num].tvb)
            /\ fragment_table[fl] = <<>>
            /\ reassembled_table[<<last'.num, fl>>] = NoHead )
          => /\ last'.path = "standalone"
             /\ last'.fn = "dissect_blocks"
             /\ last'.buf = frames'[last'.num].tvb
             /\ last'.start = WirePayloadOffset(frames'[last'.num].tvb)
             /\ fragment_table' = fragment_table
             /\ reassembled_table' = reassembled_table ]_vars

\* a first-visit standalone decode while the other flow is accumulating
C3_Witness ==
    /\ last.num # 0 /\ ~last.visited
    /\ last.path = "standalone"
    /\ fragment_table[LastFrame.flow] = <<>>
    /\ \E fl \in Flows : fragment_table[fl] # <<>>

(* ------------------------------- C4 ------------------------------------ *)
\* C4: a first-visit arrival with MoreFrag=true that reaches the engine
\* appends its payload behind the segments already buffered for its flow
\* (none or some), leaves the flow accumulating and decodes no reassembled
\* buffer.
C4_MoreFragAppends ==
    [][ \A fl \in Flows :
          ( /\ ~last'.visited
            /\ frames'[last'.num].flow = fl
            /\ WireHandsOff(frames'[last'.num].tvb)
            /\ WireMoreFrag(frames'[last'.num].tvb) )
          => /\ fragment_table'[fl] =
                    Append(fragment_table[fl],
                           [frame |-> last'.num,
                            data  |-> WirePayload(frames'[last'.num].tvb)])
             /\ last'.fn = ""
             /\ last'.reassembled_in = 0 ]_vars

\* the arrival found a group and became its second segment
C4_Witness ==
    /\ last.num # 0 /\ ~last.visited
    /\ WireMoreFrag(LastFrame.tvb)
    /\ Len(fragment_table[LastFrame.flow]) = 2
    /\ fragment_table[LastFrame.flow][2].frame = last.num

(* ------------------------------- C5 ------------------------------------ *)
\* C5: once the terminal arrival has completed a group the flow is Idle: no
\* segment of the completed group stays buffered, a group in progress holds
\* exactly the payloads of later arrivals, a later MoreFrag=true arrival
\* that finds the flow Idle starts a group holding only its own payload, and
\* a later MoreFrag=false arrival that finds the flow Idle is standalone.
C5_IdleAfterCompletion ==
    \A c \in 1..Len(frames) :
        Completing(c) =>
            LET fl == frames[c].flow
                ft == fragment_table[fl]
            IN  /\ \A i \in 1..Len(ft) :
                      /\ ft[i].frame > c
                      /\ ft[i].data = WirePayload(frames[ft[i].frame].tvb)
                /\ (last.num = c /\ ~last.visited) => ft = <<>>
                /\ ( /\ last.num > c /\ ~last.visited
                     /\ Engine(last.num, fl)
                     /\ GroupOf(last.num) = {last.num} )
                   => IF WireMoreFrag(LastFrame.tvb)
                      THEN ft = <<[frame |-> last.num,
                                   data  |-> WirePayload(LastFrame.tvb)]>>
                      ELSE last.path = "standalone" /\ ft = <<>>

\* a group was completed and the next arrival of the flow started a new one
C5_Witness ==
    /\ last.num = 3 /\ ~last.visited
    /\ Completing(2) /\ frames[2].flow = LastFrame.flow
    /\ WireMoreFrag(LastFrame.tvb)
    /\ Len(fragment_table[LastFrame.flow]) = 1

(* ------------------------------- C6 ------------------------------------ *)
\* C6: the dissection of a frame of one flow, also one that is cut short by
\* truncated input, changes neither the group in progress nor the records
\* of completed groups of any other flow.
C6_OtherFlowsUntouched ==
    [][ \A fl \in Flows :
          frames'[last'.num].flow # fl =>
              /\ fragment_table'[fl] = fragment_table[fl]
              /\ \A n \in 1..MaxFrames :
                    reassembled_table'[<<n, fl>>] = reassembled_table[<<n, fl>>] ]_vars

\* a dissection that was cut short while another flow holds a group in
\* progress
C6_Witness ==
    /\ last.num # 0
    /\ last.exc \/ last.aborted
    /\ \E fl \in Flows :
          /\ fl # LastFrame.flow
          /\ fragment_table[fl] # <<>>

(* ------------------------------- C7 ------------------------------------ *)
\* C7: a flow that is accumulating keeps its buffered segments, in place and
\* unchanged, through every dissection except that of a frame of the same
\* flow with MoreFrag=false that reaches the reassembly engine.
C7_AccumulatingPersists ==
    [][ \A fl \in Flows :
          ( /\ fragment_table[fl] # <<>>
            /\ ~( /\ frames'[last'.num].flow = fl
                  /\ WireHandsOff(frames'[last'.num].tvb)
                  /\ ~WireMoreFrag(frames'[last'.num].tvb) ) )
          => /\ Len(fragment_table'[fl]) >= Len(fragment_table[fl])
             /\ SubSeq(fragment_table'[fl], 1, Len(fragment_table[fl]))
                    = fragment_table[fl] ]_vars

\* a flow still accumulating after an arrival on the other flow and a second
\* MoreFrag=true arrival of its own
C7_Witness ==
    /\ Len(frames) = 3
    /\ \E fl \in Flows :
          /\ Len(fragment_table[fl]) = 2
          /\ fragment_table[fl][1].frame = 1
          /\ fragment_table[fl][2].frame = 3
          /\ frames[2].flow # fl
          /\ ~WireMoreFrag(frames[2].tvb)

(* ------------------------------- C8 ------------------------------------ *)
\* the first arrival of the group arrival n belongs to
FirstOfGroup(n) == CHOOSE j \in GroupOf(n) : \A k \in GroupOf(n) : j <= k

\* request/response type of the block decoder that handles a frame
WireType(tvb) == IF WirePDUType(tvb) = 6 THEN "RSP" ELSE "REQ"

\* C8 as claimed: the block decoder that is re-invoked over a reassembled
\* buffer receives the opcode of the group's first fragment, together with
\* the request/response type.
C8_OpcodeOfFirstFragment ==
    (last.num # 0 /\ last.fn = "dissect_rsi_blocks") =>
        /\ last.opnum = WireOpnum(frames[FirstOfGroup(last.num)].tvb)
        /\ last.type = WireType(LastFrame.tvb)

\* C8 as amended: the block decoder that is re-invoked over a reassembled
\* buffer receives the opcode extracted from the FOpnumOffset field of the
\* completing arrival, unchanged, together with the request/response type of
\* the block decoder that handled the completing arrival (REQ for CONN, SVCS
\* and SecurityAssociationControl, RSP for the response block).
C8_OpcodeOfCompletingArrival ==
    (last.num # 0 /\ last.fn = "dissect_rsi_blocks") =>
        /\ last.opnum = WireOpnum(LastFrame.tvb)
        /\ last.type = WireType(LastFrame.tvb)

\* a group begun by a Read request (opcode 2) and completed by a Write
\* response (opcode 3)
C8_Witness ==
    /\ last.num # 0 /\ last.fn = "dissect_rsi_blocks"
    /\ WireOpnum(frames[FirstOfGroup(last.num)].tvb) = 2
    /\ last.opnum = 3 /\ last.type = "RSP"

(* ------------------------------- C9 ------------------------------------ *)
\* C9: when a frame that contributed to a completed group is dissected, it
\* carries a back-reference to the completing frame and decodes no payload
\* if it is not the completing frame, and it decodes the reassembled buffer
\* and carries no back-reference if it is.
C9_BackReference ==
    \A c \in 1..Len(frames) :
        (Completing(c) /\ last.num \in GroupOf(c)) =>
            IF last.num = c
            THEN last.fn = "dissect_rsi_blocks" /\ last.reassembled_in = 0
            ELSE last.fn = "" /\ last.reassembled_in = c

\* the first of three frames of a completed group, dissected again
C9_Witness ==
    /\ last.num = 1 /\ last.visited
    /\ Completing(3) /\ GroupOf(3) = {1, 2, 3}
    /\ last.reassembled_in = 3

(* ------------------------------- C10 ----------------------------------- *)
\* C10: a FREQ PDU is handed to the one block decoder the opcode table
\* names: opcode 0 to CONN when DestinationServiceAccessPoint is 0xFFFF and
\* to SVCS otherwise, 5 and 6 to CONN, 2, 3, 4, 7, 8, 9 to SVCS, 0xA to
\* SecurityAssociationControl, 1 and 0xB..0x1F to none (undecoded).
C10_DispatchFollowsTable ==
    (last.num # 0 /\ WirePDUType(LastFrame.tvb) = 5) =>
        last.block = WireBlock(LastFrame.tvb)

\* a Connect with CallSequence 7 to an endpoint whose high byte is 0xFF
C10_Witness ==
    /\ last.num # 0
    /\ WireOpnum(LastFrame.tvb) = 0
    /\ LastFrame.tvb[13] = 224
    /\ WireDSAP(LastFrame.tvb) = 65280
    /\ last.block = "SVCS"

(* ------------------------------- C11 ----------------------------------- *)
\* the PDU is one the protocol leaves undecoded: a PDUType other than 3..6,
\* or a request with opcode 1 or 0xB..0x1F
WireReserved(tvb) ==
    \/ WirePDUType(tvb) \notin {3, 4, 5, 6}
    \/ WirePDUType(tvb) = 5 /\ WireOpnum(tvb) \in {1} \cup (11..31)

\* offset behind the last field decoded in front of the undecoded bytes
WireUndecodedFrom(tvb) == IF WirePDUType(tvb) = 5 THEN 16 ELSE 12

\* C11: for a request with a reserved opcode and for a PDU of a reserved
\* type one undecoded marker is emitted that runs from the current offset to
\* the end of the buffer, the returned offset is the buffer length, nothing
\* else is decoded and the reassembly state is not touched.
C11_UndecodedCoversRemainder ==
    (last.num # 0 /\ ~LastFrame.sec /\ WireReserved(LastFrame.tvb)) =>
        /\ last.block = "undecoded"
        /\ last.path = "none" /\ last.fn = ""
        /\ last.marker.offset = WireUndecodedFrom(LastFrame.tvb)
        /\ last.marker.offset + last.marker.length = Len(LastFrame.tvb)
        /\ ~last.aborted => last.offset = Len(LastFrame.tvb)

(* ------------------------------- C12 ----------------------------------- *)
\* the bytes of the RSI PDU of a frame (behind the 8 bytes of
\* SecurityMetaData in the security variant)
RsiBytes(frame) ==
    IF frame.sec THEN SubSeq(frame.tvb, 9, Len(frame.tvb)) ELSE frame.tvb

\* offset of the RSI PDU in the frame
RsiStart(frame) == IF frame.sec THEN 8 ELSE 0

\* offset at which the decode of the PDU body ended
BodyEnd == IF LastFrame.sec THEN last.sec.checksum.offset ELSE last.offset

\* C12: the decode path is chosen by the low nibble of the PDUType/Version
\* byte, whatever the high nibble (the version): 3 is an ACK that consumes
\* nothing behind the header, 4 an ERR handed to the status decoder, 5 goes
\* to the opcode dispatcher, 6 to the response decoder, every other value is
\* left undecoded; a type byte with low nibble 3 and a flags byte 0x20 is an
\* ACK with MoreFrag set.
C12_PathByLowNibble ==
    (last.num # 0 /\ (LastFrame.sec => last.sec.branch = "authentication")) =>
        LET pdu  == RsiBytes(LastFrame)
            t    == pdu[5] % 16
            hend == RsiStart(LastFrame) + 12
        IN  /\ last.hdr.u8PDUType = t
            /\ last.hdr.u8PDUVersion = pdu[5] \div 16
            /\ t = 3 => /\ last.block = "ACK" /\ ~last.fo.decoded
                         /\ last.path = "none" /\ BodyEnd = hend
            /\ t = 4 => /\ last.block = "ERR" /\ ~last.fo.decoded
                         /\ last.path = "none" /\ BodyEnd >= hend + 4
            /\ t = 5 => /\ last.block = WireBlock(pdu)
                         /\ last.fo.decoded /\ last.fo.at = hend
                         /\ last.type = (IF last.fn = "dissect_rsi_blocks"
                                          THEN "REQ" ELSE "")
            /\ t = 6 => /\ last.block = "RSP"
                         /\ last.fo.decoded /\ last.fo.at = hend
                         /\ last.type = (IF last.fn = "dissect_rsi_blocks"
                                          THEN "RSP" ELSE "")
            /\ t \notin {3, 4, 5, 6} =>
                         /\ last.block = "undecoded" /\ ~last.fo.decoded
                         /\ last.path = "none" /\ last.marker.offset = hend
            /\ (t = 3 /\ pdu[6] = 32) =>
                         last.block = "ACK" /\ last.hdr.u8MoreFrag = 1

\* a version-15 ACK with flags 0x20 in the security variant
C12_Witness ==
    /\ last.num # 0 /\ LastFrame.sec /\ ~last.visited
    /\ RsiBytes(LastFrame)[5] = 243 /\ RsiBytes(LastFrame)[6] = 32
    /\ last.block = "ACK" /\ last.hdr.u8MoreFrag = 1
    /\ last.sec.checksum.offset = 20

(* ------------------------------- C13 ----------------------------------- *)
\* the three masks select disjoint bits and together every bit of the field
MasksPartition ==
    \A i \in 1..4 :
        /\ BitAnd(hf_pn_rsi_f_opnum_offset_offset[i],
                  hf_pn_rsi_f_opnum_offset_opnum[i]) = 0
        /\ BitAnd(hf_pn_rsi_f_opnum_offset_offset[i],
                  hf_pn_rsi_f_opnum_offset_callsequence[i]) = 0
        /\ BitAnd(hf_pn_rsi_f_opnum_offset_opnum[i],
                  hf_pn_rsi_f_opnum_offset_callsequence[i]) = 0
        /\ hf_pn_rsi_f_opnum_offset_offset[i] + hf_pn_rsi_f_opnum_offset_opnum[i]
             + hf_pn_rsi_f_opnum_offset_callsequence[i] = 255

\* C13: for the FOpnumOffset value v of a PDU, Offset = v & 0x00FFFFFF,
\* Opcode = (v >> 24) & 0x1F and CallSequence = (v >> 29) & 0x7, in the
\* fields shown and in the values the dispatcher uses; the three masks
\* partition the 32 bits; the sub-fields are read at one offset and the
\* cursor advances by 4.
C13_FOpnumOffsetFields ==
    /\ MasksPartition
    /\ (last.num # 0 /\ last.fo.decoded) =>
          LET tvb == LastFrame.tvb
          IN  /\ last.fo.at = 12
              /\ last.fo.offset = last.fo.at + 4
              /\ last.fo.offset_field = tvb[14] * 65536 + tvb[15] * 256 + tvb[16]
              /\ last.fo.u32FOpnumOffsetOffset = last.fo.offset_field
              /\ last.fo.opnum_field = tvb[13] % 32
              /\ last.fo.u32FOpnumOffsetOpnum = last.fo.opnum_field
              /\ last.fo.callsequence_field = (tvb[13] \div 32) % 8

\* v = 0xF5FFFFFF in a response: CallSequence 7, opcode 0x15, Offset 0xFFFFFF
C13_Witness ==
    /\ last.num # 0 /\ last.fo.decoded /\ last.block = "RSP"
    /\ LastFrame.tvb[13] = 245
    /\ last.fo.callsequence_field = 7 /\ last.fo.opnum_field = 21
    /\ last.fo.offset_field = 16777215
    /\ last.fo.offset = 16

(* ------------------------------- C14 ----------------------------------- *)
\* big-endian 16-bit value at the 0-based offset o of the PDU
Wire16(pdu, o) == pdu[o + 1] * 256 + pdu[o + 2]

\* C14: the plain RSI header is 12 bytes, read in the order
\* DestinationServiceAccessPoint 2, SourceServiceAccessPoint 2,
\* PDUType/Version 1, AdditionalFlags 1, SendSeqNum 2, AckSeqNum 2,
\* VarPartLen 2; the cursor behind it is start + 12 for every header content:
\* the PDUType/Version byte and the AdditionalFlags byte advance the cursor
\* by one each, however many sub-fields are read from them.
C14_HeaderLayout ==
    (last.num # 0 /\ ~LastFrame.sec /\ last.hdr.decoded) =>
        LET pdu == LastFrame.tvb
        IN  /\ last.hdr.at = 0
            /\ last.hdr.u16DestinationServiceAccessPoint = Wire16(pdu, 0)
            /\ last.hdr.u16SourceServiceAccessPoint = Wire16(pdu, 2)
            /\ last.hdr.u8PDUType = pdu[5] % 16
            /\ last.hdr.u8PDUVersion = pdu[5] \div 16
            /\ last.hdr.flags.u8AddFlags = pdu[6]
            /\ last.hdr.u16SendSeqNum = Wire16(pdu, 6)
            /\ last.hdr.u16AckSeqNum = Wire16(pdu, 8)
            /\ last.hdr.u16VarPartLen = Wire16(pdu, 10)
            /\ last.hdr.offset = last.hdr.at + 12

\* a header with every flag bit set and six distinct field values
C14_Witness ==
    /\ last.num # 0 /\ ~LastFrame.sec /\ last.hdr.decoded
    /\ last.hdr.flags.u8AddFlags = 255
    /\ last.hdr.u16SourceServiceAccessPoint = 772
    /\ last.hdr.u16SendSeqNum = 1286
    /\ last.hdr.u16AckSeqNum = 1800
    /\ last.hdr.offset = 12

(* ------------------------------- C15 ----------------------------------- *)
\* C15: for every AdditionalFlags byte v, MoreFrag = (v >> 5) & 1 in the
\* field shown and in the value the dispatcher and the reassembly engine use
\* (plain and security decoder: the first arrival of a flow is buffered when
\* the bit is set and standalone when it is clear), TACK = (v >> 4) & 1, and
\* the sub-fields put back at their bit positions give v.
C15_AdditionalFlagsRoundTrip ==
    (last.num # 0 /\ last.hdr.decoded) =>
        LET v == RsiBytes(LastFrame)[6]
            f == last.hdr.flags
        IN  /\ f.u8AddFlags = v
            /\ last.hdr.u8MoreFrag = (v \div 32) % 2
            /\ f.morefrag = (v \div 32) % 2
            /\ f.tack = (v \div 16) % 2
            /\ f.summary.Tack = (v \div 16) % 2
            /\ f.windowsize + 8 * f.reserved1 + 16 * f.tack + 32 * f.morefrag
                 + 64 * f.notification + 128 * f.reserved2 = v
            /\ (last.num = 1 /\ ~last.visited /\ last.path # "none") =>
                  (last.path = "segment") = ((v \div 32) % 2 = 1)

\* flags 0xEF in the security decoder: MoreFrag 1, TACK 0, buffered
C15_Witness ==
    /\ last.num # 0 /\ LastFrame.sec /\ ~last.visited
    /\ last.hdr.flags.u8AddFlags = 239
    /\ last.hdr.u8MoreFrag = 1 /\ last.hdr.flags.tack = 0
    /\ last.path = "segment" /\ fragment_table["A"] # <<>>

(* ------------------------------- C16 ----------------------------------- *)
\* C16: for every AdditionalFlags byte v the WindowSize the decoder derives
\* is v & 0x07, in the field shown and in the flags summary.
C16_WindowSizeLowThreeBits ==
    (last.num # 0 /\ last.hdr.decoded) =>
        LET v == RsiBytes(LastFrame)[6]
        IN  /\ last.hdr.flags.windowsize = v % 8
            /\ last.hdr.flags.summary.WindowSize = v % 8

(* ------------------------------- C17 ----------------------------------- *)
\* C17: the security decoder reads the 8 bytes of SecurityMetaData and the
\* two service access points, so that the cursor is start + 12 in front of
\* the branch for every input; the branch depends on the low nibble of the
\* Information byte only: 0 is authentication only, 1 is authenticated
\* encryption, and at most one of the two is taken.
C17_SecurityEnvelope ==
    (last.num # 0 /\ LastFrame.sec /\ last.sec.decoded) =>
        LET tvb == LastFrame.tvb
        IN  /\ last.sec.at = 12
            /\ last.hdr.u16DestinationServiceAccessPoint = Wire16(tvb, 8)
            /\ last.hdr.u16SourceServiceAccessPoint = Wire16(tvb, 10)
            /\ last.sec.u8ProtectionMode = tvb[1] % 16
            /\ (last.sec.branch = "authentication") = (tvb[1] % 16 = 0)
            /\ (last.sec.branch = "encryption") = (tvb[1] % 16 = 1)
            /\ last.sec.branch = "authentication" =>
                  last.sec.data = NoMarker /\ last.block # "SecurityData"
            /\ last.sec.branch = "encryption" =>
                  last.sec.checksum = NoMarker /\ ~last.hdr.decoded

\* Information 0xF1: reserved bits set, authenticated encryption
C17_Witness ==
    /\ last.num # 0 /\ LastFrame.sec /\ LastFrame.tvb[1] = 241
    /\ last.sec.at = 12 /\ last.sec.branch = "encryption"
    /\ last.sec.data.offset = 12

(* ------------------------------- C18 ----------------------------------- *)
\* the result of the plain decoder for the RSI PDU of the frame dissected in
\* this step, in the state in front of the step
PlainDecode ==
    dissect_PNIO_RSI(fragment_table, reassembled_table,
        PacketInfo(last'.num, last'.visited, frames'[last'.num].flow,
                   frames'[last'.num].flow),
        frames'[last'.num].tvb, 8)

\* this step dissected a frame in the authentication-only branch
AuthenticationStep ==
    /\ last'.num # 0 /\ frames'[last'.num].sec
    /\ last'.sec.branch = "authentication"

\* header, dispatch and reassembly calls of this step are those of the plain
\* decoder
SameAsPlain(p) ==
    /\ last'.hdr = p.hdr
    /\ last'.block = p.body.block /\ last'.exc = p.body.exc
    /\ last'.note = p.body.note /\ last'.marker = p.body.marker
    /\ last'.fo = p.body.fo
    /\ last'.path = p.body.ud.path /\ last'.fn = p.body.ud.fn
    /\ last'.buf = p.body.ud.buf /\ last'.start = p.body.ud.start
    /\ last'.opnum = p.body.ud.opnum /\ last'.type = p.body.ud.type
    /\ last'.args = p.body.ud.args
    /\ last'.reassembled_in = p.body.ud.reassembled_in
    /\ fragment_table' = p.body.ud.ft
    /\ reassembled_table' = p.body.ud.rt

\* the SecurityChecksum of this step is 16 bytes at `end`, and the decoder
\* returns the offset behind it
ChecksumAt(end) ==
    /\ last'.sec.checksum = [offset |-> end, length |-> 16]
    /\ ~last'.aborted => last'.offset = end + 16

\* C18 as claimed: with ProtectionMode 0 the security decoder decodes the RSI
\* header and body of every PDU type (ACK, ERR, FREQ, FRSP, reserved) as the
\* plain decoder does for the same bytes and then adds a 16-byte
\* SecurityChecksum at the offset the body decode ended at, advancing the
\* cursor by 16.
C18_AuthenticationOnlyIsPlainPlusChecksum ==
    [][AuthenticationStep =>
          \E p \in {PlainDecode} :
             /\ SameAsPlain(p)
             /\ ~p.body.exc => ChecksumAt(p.offset)]_vars

\* C18 as amended: the same for ACK, FREQ, FRSP and reserved PDU types; an
\* ERR PDU is decoded as the plain decoder does (the status), and when bytes
\* remain behind the status the security decoder also decodes VendorID (2),
\* DeviceID (2) and Data of buffer length - offset - 16 bytes; the
\* SecurityChecksum is added at the offset that decode ended at.
C18_AuthenticationOnlyIsPlainPlusChecksumButERR ==
    [][AuthenticationStep =>
          \E p \in {PlainDecode} :
             /\ SameAsPlain(p)
             /\ (~last'.exc /\ last'.block # "ERR") =>
                   /\ ChecksumAt(p.offset)
                   /\ last'.sec.errinfo = NoMarker
             /\ (~last'.exc /\ last'.block = "ERR") =>
                   LET status == p.offset
                       tvb    == frames'[last'.num].tvb
                   IN  IF Len(tvb) > status
                       THEN /\ last'.sec.errinfo =
                                 [offset |-> status + 4,
                                  length |-> Len(tvb) - (status + 4) - 16]
                            /\ ChecksumAt(Len(tvb) - 16)
                       ELSE /\ last'.sec.errinfo = NoMarker
                            /\ ChecksumAt(status)]_vars

\* a Write response that completes a group in the security variant: the
\* checksum is added at the offset the decode of the reassembled buffer
\* returned
C18_Witness ==
    /\ last.num = 2 /\ LastFrame.sec /\ ~last.visited
    /\ last.sec.branch = "authentication"
    /\ last.block = "RSP" /\ last.fn = "dissect_rsi_blocks"
    /\ last.sec.checksum.offset = Len(last.buf)
    /\ last.offset = Len(last.buf) + 16

(* ------------------------------- C19 ----------------------------------- *)
\* this step dissected a frame in the authenticated-encryption branch
EncryptionStep ==
    /\ last'.num # 0 /\ frames'[last'.num].sec
    /\ last'.sec.branch = "encryption"

\* C19: with ProtectionMode 1 all bytes behind the 12-byte envelope are one
\* opaque SecurityData field whose length is the remaining buffer length, no
\* RSI header field, FOpnumOffset or block is decoded, no checksum is added,
\* the fragment and reassembled tables are left as they were, and the
\* returned offset is the buffer length.
C19_EncryptedIsOpaque ==
    [][EncryptionStep =>
          LET tvb == frames'[last'.num].tvb
          IN  /\ last'.sec.data = [offset |-> 12, length |-> Len(tvb) - 12]
              /\ last'.block = "SecurityData"
              /\ last'.hdr.u8PDUType = NoHeader.u8PDUType
              /\ last'.hdr.flags = NoHeader.flags
              /\ last'.hdr.u16VarPartLen = NoHeader.u16VarPartLen
              /\ last'.fo = NoFOpnum
              /\ last'.marker = NoMarker
              /\ last'.sec.checksum = NoMarker
              /\ last'.sec.errinfo = NoMarker
              /\ last'.path = "none" /\ last'.fn = "" /\ last'.buf = <<>>
              /\ ~last'.exc /\ ~last'.aborted
              /\ fragment_table' = fragment_table
              /\ reassembled_table' = reassembled_table
              /\ last'.offset = Len(tvb)]_vars

\* ProtectionMode 1 in front of 32 remaining bytes that would be a Read
\* request, dissected while the flow has a group in progress
C19_Witness ==
    /\ last.num = 2 /\ LastFrame.sec /\ ~last.visited
    /\ last.sec.u8ProtectionMode = 1
    /\ last.sec.data = [offset |-> 12, length |-> 32]
    /\ last.offset = 44
    /\ WirePDUType(RsiBytes(LastFrame)) = 5
    /\ \E k \in DOMAIN fragment_table : fragment_table[k] # <<>>

(* ------------------------------- C20 ----------------------------------- *)
\* C20: when the stored ProtectionMode is neither 0 nor 1 the security
\* decoder reports an "unrecognized protection mode" condition.
C20_UnrecognizedProtectionModeReported ==
    (/\ last.num # 0 /\ LastFrame.sec /\ last.sec.decoded
     /\ last.sec.u8ProtectionMode \notin {0, 1})
        => "unrecognized protection mode" \in last.sec.diag

(* ------------------------------- C21 ----------------------------------- *)
\* a call of the PDRsiInstances decoder has been made
PDRsiCall == last.num # 0 /\ last.block = "PDRsiInstances"

\* C21: the PDRsiInstances decoder accepts only BlockVersion (1,0); for any
\* other pair it reports one note-level diagnostic naming the version,
\* decodes no field (NumberOfEntries included) and returns the input offset;
\* for (1,0) it reports nothing.
C21_OnlyBlockVersion10 ==
    PDRsiCall =>
        IF <<last.u8BlockVersionHigh, last.u8BlockVersionLow>> = <<1, 0>>
        THEN last.expert = <<>>
        ELSE /\ Len(last.expert) = 1
             /\ last.expert[1].severity = "PI_NOTE"
             /\ last.expert[1].high = last.u8BlockVersionHigh
             /\ last.expert[1].low = last.u8BlockVersionLow
             /\ last.items = <<>>
             /\ last.iterations = 0
             /\ last.pc = "return" /\ ~last.exc /\ ~last.aborted
             /\ last.offset = last.at

\* version (1,1) in front of a complete block with two entries
C21_Witness ==
    /\ PDRsiCall
    /\ <<last.u8BlockVersionHigh, last.u8BlockVersionLow>> = <<1, 1>>
    /\ last.at = 6 /\ last.offset = 6
    /\ Len(frames[1].tvb) = 6 + 2 + 8 * 2 + 80
    /\ tvb_get_ntohs(frames[1].tvb, 6) = 2
    /\ Len(last.expert) = 1

(* ------------------------------- C22 ----------------------------------- *)
\* NumberOfEntries on the wire of the block the call was made for (0 when
\* the buffer ends in front of it)
WireNumberOfEntries ==
    IF Len(frames[1].tvb) >= last.at + 2
    THEN frames[1].tvb[last.at + 1] * 256 + frames[1].tvb[last.at + 2]
    ELSE 0

\* the items of a block with n entries that starts at `at`: the count, n
\* records of 8 bytes, the six strings at fixed offsets behind the records
WirePDRsiItems(at, n) ==
    LET rec == <<[name |-> "VendorID", rel |-> 0, length |-> 2],
                 [name |-> "DeviceID", rel |-> 2, length |-> 2],
                 [name |-> "InstanceID", rel |-> 4, length |-> 2],
                 [name |-> "RsiInterface", rel |-> 6, length |-> 1],
                 [name |-> "Padding", rel |-> 7, length |-> 1]>>
        str == <<[name |-> "DeviceType", rel |-> 0, length |-> 25],
                 [name |-> "OrderID", rel |-> 26, length |-> 20],
                 [name |-> "IM_Serial_Number", rel |-> 47, length |-> 16],
                 [name |-> "HWRevision", rel |-> 64, length |-> 5],
                 [name |-> "SWRevisionPrefix", rel |-> 70, length |-> 1],
                 [name |-> "SWRevision", rel |-> 71, length |-> 9]>>
        end == at + 2 + 8 * n
    IN  <<[name |-> "NumberOfEntries", offset |-> at, length |-> 2]>>
        \o [i \in 1..(5 * n) |->
              [name   |-> rec[((i - 1) % 5) + 1].name,
               offset |-> at + 2 + 8 * ((i - 1) \div 5) + rec[((i - 1) % 5) + 1].rel,
               length |-> rec[((i - 1) % 5) + 1].length]]
        \o [i \in 1..6 |-> [name |-> str[i].name, offset |-> end + str[i].rel,
                            length |-> str[i].length]]

\* C22: for BlockVersion (1,0), NumberOfEntries N and a buffer that holds the
\* whole block, the loop makes exactly N passes of 8 bytes each, the six
\* strings are decoded at +0, +26, +47, +64, +70, +71 behind the records with
\* lengths 25, 20, 16, 5, 1, 9, and the returned offset is input + 2 + 8N + 80.
C22_RecordsThenStrings ==
    (/\ PDRsiCall
     /\ <<last.u8BlockVersionHigh, last.u8BlockVersionLow>> = <<1, 0>>
     /\ Len(frames[1].tvb) >= last.at + 2 + 8 * WireNumberOfEntries + 80)
    => /\ ~last.exc /\ ~last.aborted
       /\ last.iterations + last.u16NumberOfEntries = WireNumberOfEntries
       /\ last.pc = "while" =>
             /\ last.offset = last.at + 2 + 8 * last.iterations
             /\ last.items =
                  SubSeq(WirePDRsiItems(last.at, WireNumberOfEntries), 1,
                         1 + 5 * last.iterations)
       /\ last.pc = "return" =>
             /\ last.iterations = WireNumberOfEntries
             /\ last.items = WirePDRsiItems(last.at, WireNumberOfEntries)
             /\ last.offset = last.at + 2 + 8 * WireNumberOfEntries + 80

\* the scenario: NumberOfEntries 2, the decoder has returned
C22_Witness ==
    /\ PDRsiCall
    /\ <<last.u8BlockVersionHigh, last.u8BlockVersionLow>> = <<1, 0>>
    /\ WireNumberOfEntries = 2 /\ last.at = 6
    /\ last.pc = "return" /\ last.iterations = 2
    /\ Len(last.items) = 1 + 2 * 5 + 6
    /\ last.offset = 6 + 2 + 16 + 80

(* ------------------------------- C23 ----------------------------------- *)
\* the most recent dissection ran one of the four block decoders on a FREQ
\* or FRSP PDU
BlockDecoded ==
    /\ last.num # 0
    /\ WirePDUType(LastFrame.tvb) \in {5, 6}
    /\ last.block \in {"SVCS", "CONN", "SecurityAssociationControl", "RSP"}
    /\ ~last.exc

\* C23: for a FREQ or FRSP PDU with VarPartLen = 0, whatever its Offset, the
\* reassembly engine is not entered and the block decoder returns at the
\* offset right behind the fixed header fields.
C23_ZeroVarPartLenNoPayloadDecode ==
    (BlockDecoded /\ WireVarPartLen(LastFrame.tvb) = 0)
    => /\ last.path = "none"
       /\ last.fn = ""
       /\ last.offset = 16 + WireFixedLen(LastFrame.tvb)

(* ------------------------------- C24 ----------------------------------- *)
\* C24: a PDU whose VarPartLen is 0x0599 or above is reported as reserved /
\* out of range, and its payload is not handed to the reassembly engine the
\* way the payload of a PDU with an in-range length is.
C24_ReservedVarPartLenNotAccepted ==
    (BlockDecoded /\ WireVarPartLen(LastFrame.tvb) >= 1433)
    => /\ pn_rsi_var_part_len(last.hdr.u16VarPartLen) = "Reserved"
       /\ last.path = "none"
       /\ last.fn = ""

(* ------------------------------- C30 ----------------------------------- *)
\* C30: in every block decoder the payload length, computed in uint32_t and
\* stored as int32_t, equals the mathematical integer Offset + VarPartLen - 8
\* (between -8 and 16842742) for the Offset and VarPartLen of the PDU; the
\* reassembly engine is entered exactly when that value is positive, and
\* otherwise the block decoder returns right behind the fixed fields.
C30_PayloadLengthIsExact ==
    BlockDecoded =>
        \E length \in { WireOffset(LastFrame.tvb) + WireVarPartLen(LastFrame.tvb) - 8 } :
            /\ PayloadLength(last.fo.u32FOpnumOffsetOffset, last.hdr.u16VarPartLen) = length
            /\ length \in -8..16842742
            /\ (last.path # "none") <=> (length > 0)
            /\ (length <= 0) => /\ last.fn = ""
                                /\ last.offset = 16 + WireFixedLen(LastFrame.tvb)

\* Offset 0 and VarPartLen 0: the uint32_t subtraction wraps, the length is -8
C30_Witness ==
    /\ BlockDecoded
    /\ WireOffset(LastFrame.tvb) = 0 /\ WireVarPartLen(LastFrame.tvb) = 0
    /\ U32Sub(U32(0), U32(8)) = <<65535, 65528>>
    /\ PayloadLength(last.fo.u32FOpnumOffsetOffset, last.hdr.u16VarPartLen) = -8
    /\ last.path = "none"
    /\ last.offset = 16 + WireFixedLen(LastFrame.tvb)

(* ------------------------------- C29 ----------------------------------- *)
\* where the fixed fields of the block ended: the cursor handed to the
\* reassembly engine, or returned when the engine was not entered
FixedFieldsEnd == IF last.path = "standalone" THEN last.start ELSE last.offset

\* C29: the CONN, SVCS and SecurityAssociationControl block decoders decode
\* their fixed fields exactly when Offset = 0 (SVCS 4 bytes, CONN 12 bytes,
\* SecurityAssociationControl at least the 4 bytes of RspMaxLength), consume
\* nothing when Offset # 0 whatever MoreFrag is, and record the "header is at
\* first segment" note exactly when Offset # 0 and MoreFrag = 0.  (Observed
\* on every dissection that does not decode a reassembled buffer.)
C29_FixedFieldsIffOffsetZero ==
    (/\ BlockDecoded
     /\ last.block \in {"SVCS", "CONN", "SecurityAssociationControl"}
     /\ last.fn # "dissect_rsi_blocks")
    => /\ WireOffset(LastFrame.tvb) = 0 =>
             /\ last.block = "SVCS" => FixedFieldsEnd = 16 + 4
             /\ last.block = "CONN" => FixedFieldsEnd = 16 + 12
             /\ last.block = "SecurityAssociationControl" => FixedFieldsEnd >= 16 + 4
       /\ WireOffset(LastFrame.tvb) # 0 => FixedFieldsEnd = 16
       /\ last.note <=> (WireOffset(LastFrame.tvb) # 0 /\ ~WireMoreFrag(LastFrame.tvb))

\* a ReadImplicit request with Offset 9 and MoreFrag set: nothing consumed,
\* no note, the bytes behind FOpnumOffset are buffered
C29_Witness ==
    /\ BlockDecoded /\ ~last.visited
    /\ last.block = "CONN"
    /\ WireOffset(LastFrame.tvb) = 9 /\ WireMoreFrag(LastFrame.tvb)
    /\ last.path = "segment" /\ FixedFieldsEnd = 16 /\ ~last.note
    /\ fragment_table[LastFrame.flow] # <<>>

(* ------------------------------- C26 ----------------------------------- *)
\* the most recent dissection ran the SecurityAssociationControl block
\* decoder on a first segment and did not decode a reassembled buffer
SAC_FirstSegment ==
    /\ BlockDecoded
    /\ last.block = "SecurityAssociationControl"
    /\ WireOffset(LastFrame.tvb) = 0
    /\ last.fn # "dissect_rsi_blocks"

\* C26 as stated: with Offset = 0 the SecurityAssociationControl block
\* decodes RspMaxLength (4 bytes) and, exactly when the destination endpoint
\* is 0xFFFF, an identification sub-block of 7 bytes: 4 bytes or 4 + 7 bytes
\* of fixed fields.
C26_IdentificationIsSevenBytes ==
    SAC_FirstSegment =>
        FixedFieldsEnd = 16 + (IF WireDSAP(LastFrame.tvb) = 65535 THEN 4 + 7 ELSE 4)

\* C26, amended: with Offset = 0 the SecurityAssociationControl block
\* decodes RspMaxLength (4 bytes) and, exactly when the destination endpoint
\* is 0xFFFF, an identification sub-block of 8 bytes (VendorID 2, DeviceID
\* 2, InstanceID 2, Interface 1, padding 1): 4 bytes or 4 + 8 bytes of fixed
\* fields.
C26_IdentificationIsEightBytes ==
    SAC_FirstSegment =>
        FixedFieldsEnd = 16 + (IF WireDSAP(LastFrame.tvb) = 65535 THEN 4 + 8 ELSE 4)

\* a SecurityAssociationControl request to the CON-SAP, payload decoded
\* behind the twelve bytes of fixed fields
C26_Witness ==
    /\ SAC_FirstSegment
    /\ WireDSAP(LastFrame.tvb) = 65535
    /\ last.path = "standalone" /\ last.start = 28

(* ------------------------------- C27 ----------------------------------- *)
\* the most recent dissection decoded the FOpnumOffset of an FRSP PDU
ResponseDecoded ==
    /\ last.num # 0
    /\ WirePDUType(LastFrame.tvb) = 6
    /\ last.fo.decoded /\ ~last.exc

\* what every opcode has in common: the RSP block, the 4-byte status exactly
\* at Offset 0, and the hand-off of the bytes behind it with the opcode of
\* the PDU and the type RSP when the payload length is positive
CommonResponseDecode ==
    /\ last.block = "RSP"
    /\ last.fn # "dissect_rsi_blocks" =>
          FixedFieldsEnd = 16 + (IF WireOffset(LastFrame.tvb) = 0 THEN 4 ELSE 0)
    /\ WireOffset(LastFrame.tvb) + WireVarPartLen(LastFrame.tvb) - 8 > 0 =>
          /\ last.path # "none"
          /\ last.args = [u32FOpnumOffsetOpnum |-> WireOpnum(LastFrame.tvb),
                          type |-> "RSP"]
          /\ last.fn = "dissect_rsi_blocks" =>
                /\ last.type = "RSP"
                /\ last.opnum = WireOpnum(LastFrame.tvb)

\* C27 as stated: for every opcode 0..31 an FRSP PDU gets the common
\* response-block decode (status when Offset = 0, otherwise the continuation
\* note) and its payload is handed to the reassembly engine with type RSP.
C27_ResponseNoteWheneverOffsetNonZero ==
    ResponseDecoded =>
        /\ CommonResponseDecode
        /\ last.note <=> (WireOffset(LastFrame.tvb) # 0)

\* C27, amended: as above, but the continuation note is recorded only when
\* Offset # 0 and MoreFrag = 0; with Offset # 0 and MoreFrag = 1 neither a
\* status nor a note is produced.
C27_ResponseOpcodeSelectsLabelOnly ==
    ResponseDecoded =>
        /\ CommonResponseDecode
        /\ last.note <=> (WireOffset(LastFrame.tvb) # 0 /\ ~WireMoreFrag(LastFrame.tvb))

\* a response with the reserved opcode 31 and Offset 0: status, then the
\* payload decoded at once, handed over as RSP
C27_Witness ==
    /\ ResponseDecoded /\ ~last.visited
    /\ WireOpnum(LastFrame.tvb) = 31 /\ WireOffset(LastFrame.tvb) = 0
    /\ last.block = "RSP" /\ last.path = "standalone" /\ last.start = 20
    /\ last.args = [u32FOpnumOffsetOpnum |-> 31, type |-> "RSP"]

(* ------------------------------- C28 ----------------------------------- *)
\* C28: in whatever order the arrivals of a flow are delivered, and whatever
\* their MoreFrag values are, every arrival that reaches the reassembly
\* engine takes exactly one of the three transitions: standalone (MoreFrag
\* false, no group in progress: decoded at once, state untouched), buffered
\* (MoreFrag true: one more segment in the group of its flow) or completing
\* (MoreFrag false, group in progress: the group is removed, its buffer is
\* filed under the arrival and decoded); the engine raises no error.
C28_AnyOrderIsHandled ==
    [][ \A fl \in Flows :
          ( /\ ~last'.visited
            /\ frames'[last'.num].flow = fl
            /\ WireHandsOff(frames'[last'.num].tvb) )
          => /\ ~last'.exc
             /\ \/ /\ ~WireMoreFrag(frames'[last'.num].tvb)
                   /\ fragment_table[fl] = <<>>
                   /\ last'.path = "standalone" /\ last'.fn = "dissect_blocks"
                   /\ fragment_table' = fragment_table
                   /\ reassembled_table' = reassembled_table
                \/ /\ WireMoreFrag(frames'[last'.num].tvb)
                   /\ last'.path = "segment" /\ last'.fn = ""
                   /\ Len(fragment_table'[fl]) = Len(fragment_table[fl]) + 1
                   /\ fragment_table'[fl][Len(fragment_table'[fl])].frame = last'.num
                   /\ reassembled_table' = reassembled_table
                \/ /\ ~WireMoreFrag(frames'[last'.num].tvb)
                   /\ fragment_table[fl] # <<>>
                   /\ last'.path = "segment" /\ last'.fn = "dissect_rsi_blocks"
                   /\ fragment_table'[fl] = <<>>
                   /\ reassembled_table'[<<last'.num, fl>>].reassembled_in = last'.num ]_vars

\* a MoreFrag=false arrival came first and was decoded on its own; the
\* MoreFrag=true arrival behind it was buffered and the third one completes
C28_Witness ==
    /\ Len(frames) = 3 /\ last.num = 3 /\ ~last.visited
    /\ \A i \in 1..3 : frames[i].flow = "A" /\ WireHandsOff(frames[i].tvb)
    /\ ~WireMoreFrag(frames[1].tvb)
    /\ WireMoreFrag(frames[2].tvb)
    /\ ~WireMoreFrag(frames[3].tvb)
    /\ reassembled_table[<<1, "A">>] = NoHead
    /\ reassembled_table[<<2, "A">>].reassembled_in = 3
    /\ last.fn = "dissect_rsi_blocks" /\ fragment_table["A"] = <<>>

(* ------------------------------- C25 ----------------------------------- *)
\* C25: an arrival for which no conversation can be found or created does
\* not crash the reassembly engine; its payload is decoded as a standalone
\* arrival and no reassembly state is kept for it or used by it.
C25_NoFlowIsStandalone ==
    (/\ last.num # 0
     /\ LastFrame.flow = NULL
     /\ WireHandsOff(LastFrame.tvb))
    => /\ last.path = "standalone"
       /\ last.fn = "dissect_blocks"
       /\ last.buf = LastFrame.tvb

(* ------------------------------- C32 ----------------------------------- *)
\* C32: the dissection of a frame that was visited before (a standalone
\* arrival, a buffered segment or the completing arrival) changes neither
\* the group in progress of any flow nor any record of a completed group.
C32_RevisitLeavesReassemblyState ==
    [][ last'.visited =>
          /\ fragment_table' = fragment_table
          /\ reassembled_table' = reassembled_table ]_vars

\* a buffered segment of a group in progress was dissected again and the
\* group still holds it once
C32_Witness ==
    /\ last.num # 0 /\ last.visited
    /\ WireHandsOff(LastFrame.tvb) /\ WireMoreFrag(LastFrame.tvb)
    /\ Len(fragment_table[LastFrame.flow]) = 2
    /\ fragment_table[LastFrame.flow][1].frame = last.num
    /\ fragment_table[LastFrame.flow][2].frame # last.num

(* ------------------------------- C33 ----------------------------------- *)
\* arrival n was standalone on its first visit: it reached the engine with
\* MoreFrag=false while its flow had no group in progress
StandaloneArrival(n) ==
    /\ Engine(n, frames[n].flow)
    /\ ~WireMoreFrag(frames[n].tvb)
    /\ GroupOf(n) = {n}

\* C33: a frame that was standalone on its first visit is standalone on
\* every visit: its payload is decoded from its own buffer, whatever was
\* processed on its flow in between.
C33_StandaloneOnEveryVisit ==
    (last.num # 0 /\ StandaloneArrival(last.num))
    => /\ last.path = "standalone"
       /\ last.fn = "dissect_blocks"
       /\ last.buf = LastFrame.tvb

(* ------------------------------- C36 ----------------------------------- *)
\* C36: the group an arrival contributes to is chosen by its flow alone:
\* whatever the DestinationServiceAccessPoint, SourceServiceAccessPoint,
\* Opcode, CallSequence, Offset and request/response type of the arrival
\* and of the segments already buffered, a MoreFrag=true arrival is put
\* behind the segments buffered for its flow and a MoreFrag=false arrival
\* completes the group in progress of its flow, also one started by a PDU
\* of a different call.
C36_GroupKeyIsFlowOnly ==
    [][ \A fl \in Flows :
          ( /\ ~last'.visited
            /\ frames'[last'.num].flow = fl
            /\ WireHandsOff(frames'[last'.num].tvb) )
          => /\ WireMoreFrag(frames'[last'.num].tvb) =>
                   fragment_table'[fl] =
                       Append(fragment_table[fl],
                              [frame |-> last'.num,
                               data  |-> WirePayload(frames'[last'.num].tvb)])
             /\ (~WireMoreFrag(frames'[last'.num].tvb) /\ fragment_table[fl] # <<>>) =>
                   /\ fragment_table'[fl] = <<>>
                   /\ last'.fn = "dissect_rsi_blocks"
                   /\ last'.buf = ConcatData(fragment_table[fl])
                                   \o WirePayload(frames'[last'.num].tvb)
                   /\ \A i \in 1..Len(fragment_table[fl]) :
                         reassembled_table'[<<fragment_table[fl][i].frame, fl>>].reassembled_in
                             = last'.num ]_vars

\* a response of call 1 to another endpoint completed the group that a Read
\* request of call 0 started on the same flow
C36_Witness ==
    /\ Len(frames) = 2 /\ last.num = 2 /\ ~last.visited
    /\ frames[1].flow = frames[2].flow
    /\ frames[1].tvb[17 + 4] = 1 /\ WireMoreFrag(frames[1].tvb)
    /\ frames[2].tvb[17 + 4] = 8 /\ ~WireMoreFrag(frames[2].tvb)
    /\ WireDSAP(frames[1].tvb) # WireDSAP(frames[2].tvb)
    /\ WirePDUType(frames[1].tvb) # WirePDUType(frames[2].tvb)
    /\ WireOpnum(frames[1].tvb) # WireOpnum(frames[2].tvb)
    /\ WireOffset(frames[1].tvb) # WireOffset(frames[2].tvb)
    /\ last.fn = "dissect_rsi_blocks"
    /\ last.buf = <<1>> \o Zeros(4) \o <<8>>
    /\ reassembled_table[<<1, frames[1].flow>>].reassembled_in = 2

(* ------------------------------- C37 ----------------------------------- *)
\* the PDU is not a FREQ/FRSP with a decoded opcode and a positive computed
\* payload length
NoPayloadPDU(tvb) ==
    /\ Len(tvb) >= 16
    /\ \/ WirePDUType(tvb) \notin {5, 6}
       \/ WirePDUType(tvb) = 5 /\ WireBlock(tvb) = "undecoded"
       \/ WireOffset(tvb) + WireVarPartLen(tvb) - 8 <= 0

\* C37: an ACK or ERR PDU, a PDU of a reserved type, a FREQ with a reserved
\* opcode and a FREQ/FRSP whose computed length Offset + VarPartLen - 8 is
\* not positive never reach the reassembly engine: the group in progress of
\* every flow and every completed record stay as they are, also when the
\* PDU carries MoreFrag=false and its flow is accumulating.
C37_OnlyPayloadPDUsTouchReassembly ==
    [][ (last'.num # 0 /\ NoPayloadPDU(frames'[last'.num].tvb))
        => /\ last'.path = "none" /\ last'.fn = ""
           /\ last'.args = NoArgs
           /\ fragment_table' = fragment_table
           /\ reassembled_table' = reassembled_table ]_vars

\* an ACK with MoreFrag=false arrived on a flow with a group in progress,
\* and the group is still in progress
C37_Witness ==
    /\ Len(frames) = 2 /\ last.num = 2 /\ ~last.visited
    /\ frames[1].flow = frames[2].flow
    /\ WirePDUType(frames[2].tvb) = 3 /\ ~WireMoreFrag(frames[2].tvb)
    /\ Len(fragment_table[frames[2].flow]) = 1
    /\ fragment_table[frames[2].flow][1].frame = 1
    /\ last.path = "none"

(* ------------------------------- C38 ----------------------------------- *)
\* C38: whenever payload bytes are decoded, from the arriving buffer of a
\* standalone arrival or from the reassembled buffer of a completed group,
\* they are decoded by the same block decoder, which is given the Opcode and
\* the request/response type of the PDU.
C38_SameDecoderOnBothPaths ==
    (last.num # 0 /\ last.fn # "")
    => /\ last.fn = "dissect_rsi_blocks"
       /\ last.opnum = WireOpnum(LastFrame.tvb)
       /\ last.type = WireType(LastFrame.tvb)

(* ------------------------------- C39 ----------------------------------- *)
\* the most recent dissection decoded an ERR PDU in the authentication-only
\* branch and found bytes behind the status (at 8 + 12 + 4)
ErrInfoDecoded ==
    /\ last.num # 0 /\ LastFrame.sec
    /\ last.sec.branch = "authentication"
    /\ last.block = "ERR" /\ ~last.exc
    /\ Len(LastFrame.tvb) > 24

\* C39: whenever bytes remain behind the status of an authentication-only
\* ERR PDU, the length of the Data behind VendorID and DeviceID, buffer
\* length - offset - 16, is not negative (no wraparound) and not larger than
\* what remains, and the Data ends where the 16-byte SecurityChecksum
\* begins.
C39_ErrInfoDataLengthInRange ==
    ErrInfoDecoded =>
        /\ last.sec.errinfo.offset = 28
        /\ last.sec.errinfo.length >= 0
        /\ last.sec.errinfo.length <= Len(LastFrame.tvb) - 28
        /\ last.sec.checksum.offset = 28 + last.sec.errinfo.length
        /\ last.sec.checksum.offset = Len(LastFrame.tvb) - 16

(* ------------------------------- C35 ----------------------------------- *)
\* the RSI PDU of a security frame without the SecurityMetaData in front of
\* it and the SecurityChecksum behind it: the PDU as sent without security
UnsecuredPDU(frame) == SubSeq(frame.tvb, 9, Len(frame.tvb) - 16)

\* C35: in the authentication-only variant a first-visit arrival that
\* reaches the engine contributes the payload of its RSI PDU only, without
\* the 16 bytes of its SecurityChecksum: what is buffered for it, and what a
\* completing arrival adds to the reassembled buffer, is what the same PDU
\* contributes when sent without security, and the SecurityChecksum field
\* lies on the last 16 bytes of the frame.
C35_ChecksumIsNotPayload ==
    [][ \A fl \in Flows :
          ( /\ AuthenticationStep /\ ~last'.visited
            /\ frames'[last'.num].flow = fl
            /\ Len(frames'[last'.num].tvb) >= 8 + 16 + 16
            /\ WireHandsOff(UnsecuredPDU(frames'[last'.num])) )
          => /\ WireMoreFrag(UnsecuredPDU(frames'[last'.num])) =>
                   fragment_table'[fl] =
                       Append(fragment_table[fl],
                              [frame |-> last'.num,
                               data  |-> WirePayload(UnsecuredPDU(frames'[last'.num]))])
             /\ (~WireMoreFrag(UnsecuredPDU(frames'[last'.num]))
                 /\ fragment_table[fl] # <<>>) =>
                   last'.buf = ConcatData(fragment_table[fl])
                               \o WirePayload(UnsecuredPDU(frames'[last'.num]))
             /\ last'.sec.checksum =
                   [offset |-> Len(frames'[last'.num].tvb) - 16, length |-> 16] ]_vars

(* ------------------------------- C34 ----------------------------------- *)
\* C34: the offset a dissection returns lies in the arriving buffer, between
\* the start offset and the buffer length, for every input that is not cut
\* short and every reassembly state, also for the arrival that completes a
\* group and for a request with a reserved opcode.
C34_ReturnedOffsetInBuffer ==
    (last.num # 0 /\ ~last.exc /\ ~last.aborted)
    => /\ RsiStart(LastFrame) <= last.offset
       /\ last.offset <= Len(LastFrame.tvb)

(* ------------------------------- C31 ----------------------------------- *)
\* the numbers of the flow tuple of an arrival: the port pair when both
\* ports are set, the reference pair when at least one port is zero
WireFlowTuple(pinfo) ==
    <<pinfo.src, pinfo.dst,
      IF pinfo.srcport = 0 \/ pinfo.destport = 0
      THEN pinfo.clnp_srcref ELSE pinfo.srcport,
      IF pinfo.srcport = 0 \/ pinfo.destport = 0
      THEN pinfo.clnp_dstref ELSE pinfo.destport>>

\* C31: the flow of an arrival is found or created from the source address,
\* the destination address and the port pair (both ports set) or reference
\* pair (a port is zero): arrivals with the same tuple have the same flow,
\* arrivals with different tuples have different flows, and no tuple has two
\* conversations.
C31_FlowIsGetOrCreateByTuple ==
    last.num # 0 =>
        /\ last.conversations[last.conv_index] = WireFlowTuple(last.pinfo)
        /\ \A i, j \in 1..Len(last.conversations) :
              last.conversations[i] = last.conversations[j] => i = j
        /\ \A n, m \in 1..Len(frames) :
              (WireFlowTuple(frames[n].pinfo) = WireFlowTuple(frames[m].pinfo))
                  <=> (frames[n].flow = frames[m].flow)
        /\ last.created <=>
              \A n \in 1..(last.num - 1) :
                  WireFlowTuple(frames[n].pinfo) # WireFlowTuple(last.pinfo)

\* the second arrival has a zero source port and the references of the
\* first one, whose ports were both zero: it resolves to the first flow
C31_Witness ==
    /\ last.num = 2 /\ ~last.created
    /\ frames[1].pinfo.srcport = 0 /\ frames[1].pinfo.destport = 0
    /\ frames[2].pinfo.srcport = 0 /\ frames[2].pinfo.destport = 1
    /\ frames[1].pinfo.clnp_srcref = 1 /\ frames[2].pinfo.clnp_srcref = 1
    /\ frames[1].flow = frames[2].flow
    /\ Len(last.conversations) = 1

====
